---- MODULE Spec2Model ----
(***************************************************************************)
(* Model of the "don" voice assistant core: the safety gate (safety.py),   *)
(* the intent parser (intent_parser.py), the command executor              *)
(* (executor.py) with the collaborators it calls, and the reminder         *)
(* scheduler (scheduler.py).                                               *)
(*                                                                         *)
(* Text is a sequence of one-character strings, so that the substring and  *)
(* regular-expression tests of the parser are computed as the code         *)
(* computes them.  Confidence values are hundredths (0.88 is 88).          *)
(***************************************************************************)
EXTENDS Integers, Sequences, FiniteSets, TLC

\* ------------------------------------------------------------------------
\* Bounds
\* ------------------------------------------------------------------------

\* Longest input of the parser specification, in vocabulary words.
MaxWords == 2

\* ------------------------------------------------------------------------
\* Characters and strings
\* ------------------------------------------------------------------------

UpperAlpha == <<"A","B","C","D","E","F","G","H","I","J","K","L","M",
                "N","O","P","Q","R","S","T","U","V","W","X","Y","Z">>

LowerAlpha == <<"a","b","c","d","e","f","g","h","i","j","k","l","m",
                "n","o","p","q","r","s","t","u","v","w","x","y","z">>

Digits == {"0","1","2","3","4","5","6","7","8","9"}

Range(f) == {f[i] : i \in DOMAIN f}

\* str.lower() on one character.
LowerChar(c) ==
  IF \E i \in DOMAIN UpperAlpha : UpperAlpha[i] = c
  THEN LowerAlpha[CHOOSE i \in DOMAIN UpperAlpha : UpperAlpha[i] = c]
  ELSE c

\* str.lower(), as a sequence.
Lower(s) == SubSeq([i \in 1..Len(s) |-> LowerChar(s[i])], 1, Len(s))

IsSpace(c) == c = " "

\* \w of the re module: letters, digits and the underscore.
WordChars == Range(UpperAlpha) \cup Range(LowerAlpha) \cup Digits \cup {"_"}

IsWordChar(c) == c \in WordChars

\* Smallest and largest element of a non-empty set of integers.
Min(S) == CHOOSE x \in S : \A y \in S : x <= y

Max(S) == CHOOSE x \in S : \A y \in S : x >= y

\* Index of the first character at or after i that is not white space
\* (the index after the end when there is none).
SkipSpaces(s, i) ==
  IF \E j \in i..Len(s) : ~IsSpace(s[j])
  THEN Min({j \in i..Len(s) : ~IsSpace(s[j])})
  ELSE Max({i, Len(s) + 1})

\* Index of the last character at or before i that is not white space
\* (0 when there is none).
SkipSpacesBack(s, i) ==
  IF \E j \in 1..i : ~IsSpace(s[j])
  THEN Max({j \in 1..i : ~IsSpace(s[j])})
  ELSE 0

\* s[i..j] as a sequence (empty when j < i).
Slice(s, i, j) == IF j < i THEN <<>> ELSE SubSeq(s, i, j)

\* str.strip()
Strip(s) == Slice(s, SkipSpaces(s, 1), SkipSpacesBack(s, Len(s)))

\* p occurs in s starting at index i.
MatchAt(s, i, p) ==
  /\ i >= 1
  /\ i + Len(p) - 1 <= Len(s)
  /\ \A k \in 1..Len(p) : s[i + k - 1] = p[k]

\* str.startswith
StartsWith(s, p) == MatchAt(s, 1, p)

\* `p in s`
Contains(s, p) == \E i \in 1..(Len(s) + 1) : MatchAt(s, i, p)

\* \b of the re module at the gap before index i (1..Len(s)+1).
WordBoundary(s, i) ==
  LET before == i >= 2 /\ i - 1 <= Len(s) /\ IsWordChar(s[i - 1])
      after  == i >= 1 /\ i <= Len(s) /\ IsWordChar(s[i])
  IN  before # after

\* \bp\b matches in s at index i.
WordAt(s, i, p) ==
  MatchAt(s, i, p) /\ WordBoundary(s, i) /\ WordBoundary(s, i + Len(p))

\* re.search(r"\bp\b", s)
HasWord(s, p) == \E i \in 1..Len(s) : WordAt(s, i, p)

\* a\s*b matches in s at index i; GapEnd is the index after the match.
GapEnd(s, i, a, b) == SkipSpaces(s, i + Len(a)) + Len(b)

GapAt(s, i, a, b) ==
  MatchAt(s, i, a) /\ MatchAt(s, SkipSpaces(s, i + Len(a)), b)

\* ------------------------------------------------------------------------
\* Intent parser (don/intent_parser.py)
\* ------------------------------------------------------------------------

INTENTS == {"send_whatsapp", "open_app", "close_app", "optimize_system",
            "system_status", "system_action", "file_action", "search_web",
            "schedule", "error_analysis", "screenshot", "unknown"}

WAKE_WORDS ==
  << <<"h","e","y"," ","d","o","n">>,
     <<"d","o","n",",">>,
     <<"d","o","n"," ">>,
     <<" ","d","o","n">> >>

\* The value None passed where a text is expected.
NoneText == <<"None">>

\* `text or ""`
OrEmpty(text) == IF text = NoneText THEN <<>> ELSE text

\* The first of the indices hits, or 0 when there is none: the position
\* re.search finds (the leftmost), the alternative a pattern or a loop takes
\* (the first in order).
First(hits) == IF hits = {} THEN 0 ELSE Min(hits)

\* The loop over WAKE_WORDS: the first one that is a prefix is cut off.
StripWake(lower) ==
  LET k == First({n \in DOMAIN WAKE_WORDS : StartsWith(lower, WAKE_WORDS[n])})
  IN  IF k = 0 THEN lower
      ELSE Strip(Slice(lower, Len(WAKE_WORDS[k]) + 1, Len(lower)))

\* any(k in lower for k in words)
ContainsAny(s, words) == \E k \in DOMAIN words : Contains(s, words[k])

\* "msg" in lower or "message" in lower or ... (line 55)
SendVerbs ==
  << <<"m","s","g">>,
     <<"m","e","s","s","a","g","e">>,
     <<"b","o","l","o">>,
     <<"k","a","h","o">>,
     <<"k","a","r","o">>,
     <<"k","r","o">> >>

\* r"\b(ali|ahmad|bilal|zara|fatima|hassan|usman)\b"
ContactRoster ==
  << <<"a","l","i">>,
     <<"a","h","m","a","d">>,
     <<"b","i","l","a","l">>,
     <<"z","a","r","a">>,
     <<"f","a","t","i","m","a">>,
     <<"h","a","s","s","a","n">>,
     <<"u","s","m","a","n">> >>

RosterContact(lower) ==
  LET i == First({j \in 1..Len(lower) : \E k \in DOMAIN ContactRoster :
                                           WordAt(lower, j, ContactRoster[k])})
  IN  IF i = 0 THEN <<>>
      ELSE ContactRoster[First({k \in DOMAIN ContactRoster :
                                  WordAt(lower, i, ContactRoster[k])})]

\* [\w\.\-]
IsContactChar(c) == IsWordChar(c) \/ c \in {".", "-"}

\* Index after the longest run of contact characters starting at i.
ContactRunEnd(s, i) ==
  IF \E j \in i..Len(s) : ~IsContactChar(s[j])
  THEN Min({j \in i..Len(s) : ~IsContactChar(s[j])})
  ELSE Max({i, Len(s) + 1})

\* str.strip(" ,.")
StripPunct(s) ==
  LET keep == {j \in 1..Len(s) : s[j] \notin {" ", ",", "."}}
  IN  IF keep = {} THEN <<>> ELSE Slice(s, Min(keep), Max(keep))

\* r"\bko\s+([\w\.\-]+)" matches at index i.
KoAt(s, i) ==
  /\ WordBoundary(s, i)
  /\ MatchAt(s, i, <<"k","o">>)
  /\ i + 2 <= Len(s) /\ IsSpace(s[i + 2])
  /\ LET j == SkipSpaces(s, i + 2) IN j <= Len(s) /\ IsContactChar(s[j])

KoContact(lower) ==
  LET i == First({j \in 1..Len(lower) : KoAt(lower, j)})
  IN  IF i = 0 THEN <<>>
      ELSE LET j == SkipSpaces(lower, i + 2)
           IN  StripPunct(Slice(lower, j, ContactRunEnd(lower, j) - 1))

\* Index of the first q at or after i, or 0.
NextQuote(s, i, q) ==
  IF \E j \in i..Len(s) : s[j] = q
  THEN Min({j \in i..Len(s) : s[j] = q})
  ELSE 0

\* r"\"([^\"]+)\"|'([^']+)'" matches at index i.
QuotedAt(s, i) ==
  /\ s[i] \in {"\"", "'"}
  /\ NextQuote(s, i + 1, s[i]) >= i + 2

QuotedMessage(raw) ==
  LET i == First({j \in 1..Len(raw) : QuotedAt(raw, j)})
  IN  IF i = 0 THEN <<>>
      ELSE Slice(raw, i + 1, NextQuote(raw, i + 1, raw[i]) - 1)

\* r"(?:msg|message|bolo|kaho|kro|karo)\s+(.*)$", re.IGNORECASE
MessageVerbs ==
  << <<"m","s","g">>,
     <<"m","e","s","s","a","g","e">>,
     <<"b","o","l","o">>,
     <<"k","a","h","o">>,
     <<"k","r","o">>,
     <<"k","a","r","o">> >>

VerbAt(s, i) ==
  \E k \in DOMAIN MessageVerbs :
     /\ MatchAt(Lower(s), i, MessageVerbs[k])
     /\ i + Len(MessageVerbs[k]) <= Len(s)
     /\ IsSpace(s[i + Len(MessageVerbs[k])])

VerbMessage(raw) ==
  LET i == First({j \in 1..Len(raw) : VerbAt(raw, j)})
  IN  IF i = 0 THEN <<>>
      ELSE LET k == First({n \in DOMAIN MessageVerbs :
                       /\ MatchAt(Lower(raw), i, MessageVerbs[n])
                       /\ i + Len(MessageVerbs[n]) <= Len(raw)
                       /\ IsSpace(raw[i + Len(MessageVerbs[n])])})
           IN  Strip(Slice(raw, i + Len(MessageVerbs[k]), Len(raw)))

\* r"\b(remind|reminder|uthana|yaad\s*rakhna|schedule)\b"
ScheduleWords ==
  << <<"r","e","m","i","n","d">>,
     <<"r","e","m","i","n","d","e","r">>,
     <<"u","t","h","a","n","a">>,
     <<"s","c","h","e","d","u","l","e">> >>

IsScheduleText(lower) ==
  \/ \E k \in DOMAIN ScheduleWords : HasWord(lower, ScheduleWords[k])
  \/ \E i \in 1..Len(lower) :
        /\ WordBoundary(lower, i)
        /\ GapAt(lower, i, <<"y","a","a","d">>, <<"r","a","k","h","n","a">>)
        /\ WordBoundary(lower, GapEnd(lower, i, <<"y","a","a","d">>,
                                      <<"r","a","k","h","n","a">>))

\* any(k in lower for k in ["shutdown", "band kar", "band kr", "pc band"])
ShutdownWords ==
  << <<"s","h","u","t","d","o","w","n">>,
     <<"b","a","n","d"," ","k","a","r">>,
     <<"b","a","n","d"," ","k","r">>,
     <<"p","c"," ","b","a","n","d">> >>

\* "restart" in lower or "dobara start" in lower
RestartWords ==
  << <<"r","e","s","t","a","r","t">>,
     <<"d","o","b","a","r","a"," ","s","t","a","r","t">> >>

\* any(k in lower for k in ["kholo", "open", "launch"])
OpenWords ==
  << <<"k","h","o","l","o">>,
     <<"o","p","e","n">>,
     <<"l","a","u","n","c","h">> >>

\* any(k in lower for k in ["band karo", "close", "quit"])
CloseWords ==
  << <<"b","a","n","d"," ","k","a","r","o">>,
     <<"c","l","o","s","e">>,
     <<"q","u","i","t">> >>

\* The alternatives of r"(chrome|edge|whatsapp|vs\s?code|notepad|spotify)":
\* vs\s?code is the two alternatives with one white space and with none.
AppNames ==
  << <<"c","h","r","o","m","e">>,
     <<"e","d","g","e">>,
     <<"w","h","a","t","s","a","p","p">>,
     <<"v","s"," ","c","o","d","e">>,
     <<"v","s","c","o","d","e">>,
     <<"n","o","t","e","p","a","d">>,
     <<"s","p","o","t","i","f","y">> >>

AppName(lower) ==
  LET i == First({j \in 1..Len(lower) : \E k \in DOMAIN AppNames :
                                           MatchAt(lower, j, AppNames[k])})
  IN  IF i = 0 THEN <<>>
      ELSE AppNames[First({k \in DOMAIN AppNames : MatchAt(lower, i, AppNames[k])})]

\* "search" in lower or "talash" in lower
SearchWords ==
  << <<"s","e","a","r","c","h">>,
     <<"t","a","l","a","s","h">> >>

\* any(k in lower for k in ["delete", "remove", "rename", "move", "create"])
FileWords ==
  << <<"d","e","l","e","t","e">>,
     <<"r","e","m","o","v","e">>,
     <<"r","e","n","a","m","e">>,
     <<"m","o","v","e">>,
     <<"c","r","e","a","t","e">> >>

\* r"\b(optimi[zs]e|optimize|system\s*optimize|saaf|clean)\b"
OptimizeWords ==
  << <<"o","p","t","i","m","i","z","e">>,
     <<"o","p","t","i","m","i","s","e">>,
     <<"s","a","a","f">>,
     <<"c","l","e","a","n">> >>

IsOptimizeText(lower) ==
  \/ \E k \in DOMAIN OptimizeWords : HasWord(lower, OptimizeWords[k])
  \/ \E i \in 1..Len(lower) :
        /\ WordBoundary(lower, i)
        /\ GapAt(lower, i, <<"s","y","s","t","e","m">>,
                 <<"o","p","t","i","m","i","z","e">>)
        /\ WordBoundary(lower, GapEnd(lower, i, <<"s","y","s","t","e","m">>,
                                      <<"o","p","t","i","m","i","z","e">>))

\* r"\bscreenshot\b|screen\s*shot"
IsScreenshotText(lower) ==
  \/ HasWord(lower, <<"s","c","r","e","e","n","s","h","o","t">>)
  \/ \E i \in 1..Len(lower) :
        GapAt(lower, i, <<"s","c","r","e","e","n">>, <<"s","h","o","t">>)

\* lower: the text lower-cased, stripped and without its wake phrase.
Normalize(raw) == StripWake(Strip(Lower(raw)))

\* Channel hints (lines 48-52).
ChannelHint(lower) ==
  IF \/ Contains(lower, <<"w","h","a","t","s","a","p","p"," ","w","e","b">>)
     \/ HasWord(lower, <<"w","e","b">>)
  THEN "web"
  ELSE IF Contains(lower, <<"w","h","a","t","s","a","p","p">>)
       THEN "desktop"
       ELSE "auto"

\* The condition of the WhatsApp-send branch (line 55).
IsSendText(lower) ==
  Contains(lower, <<"w","h","a","t","s","a","p","p">>) /\ ContainsAny(lower, SendVerbs)

\* The system-action branch (lines 84-92): the action it sets, or "".
SystemAction(intent, lower) ==
  IF intent # "unknown" THEN ""
  ELSE IF ContainsAny(lower, ShutdownWords) THEN "shutdown"
  ELSE IF ContainsAny(lower, RestartWords) THEN "restart"
  ELSE IF Contains(lower, <<"s","l","e","e","p">>) THEN "sleep"
  ELSE IF Contains(lower, <<"l","o","c","k">>) THEN "lock"
  ELSE ""

\* The open/close branch assigning the executor's short tags.
OpenCloseIntent_short_tags(intent, lower) ==
  IF intent # "unknown" THEN intent
  ELSE IF ContainsAny(lower, OpenWords) THEN "open"
  ELSE IF ContainsAny(lower, CloseWords) THEN "close"
  ELSE intent

\* The open/close branch (lines 95-105): the intent after it.
OpenCloseIntent(intent, lower) ==
  IF intent # "unknown" THEN intent
  ELSE IF ContainsAny(lower, OpenWords) THEN "open_app"
  ELSE IF ContainsAny(lower, CloseWords) THEN "close_app"
  ELSE intent

\* The web-search branch without its test of the intent found so far.
SearchIntent_unconditional(intent, lower) ==
  IF ContainsAny(lower, SearchWords) THEN "search_web" ELSE intent

\* The web-search branch (lines 108-110): the intent after it.
SearchIntent(intent, lower) ==
  IF intent \in {"open_app", "unknown"} /\ ContainsAny(lower, SearchWords)
  THEN "search_web"
  ELSE intent

\* The file, optimize and screenshot branches (lines 113-121).
TailIntent(intent, lower) ==
  IF intent # "unknown" THEN intent
  ELSE IF ContainsAny(lower, FileWords) THEN "file_action"
  ELSE IF IsOptimizeText(lower) THEN "optimize_system"
  ELSE IF IsScreenshotText(lower) THEN "screenshot"
  ELSE intent

\* parse_intent(text): the record the function returns.
parse_intent(text) ==
  LET raw    == OrEmpty(text)
      lower  == Normalize(raw)
      \* WhatsApp send
      isSend == IsSendText(lower)
      contact ==
        IF ~isSend THEN <<>>
        ELSE IF RosterContact(lower) # <<>> THEN RosterContact(lower)
        ELSE KoContact(lower)
      message ==
        IF ~isSend THEN <<>>
        ELSE IF First({j \in 1..Len(raw) : QuotedAt(raw, j)}) # 0
             THEN QuotedMessage(raw)
             ELSE VerbMessage(raw)
      i1 == IF isSend THEN "send_whatsapp" ELSE "unknown"
      c1 == IF isSend THEN 88 ELSE 50
      \* Scheduling
      i2 == IF i1 = "unknown" /\ IsScheduleText(lower) THEN "schedule" ELSE i1
      c2 == IF i2 # i1 THEN 85 ELSE c1
      \* Error analysis
      i3 == IF i2 = "unknown" /\ HasWord(lower, <<"e","r","r","o","r">>)
            THEN "error_analysis" ELSE i2
      c3 == IF i3 # i2 THEN 80 ELSE c2
      \* System actions
      action == SystemAction(i3, lower)
      i4 == IF action # "" THEN "system_action" ELSE i3
      c4 == CASE action = "shutdown" -> 92
               [] action = "restart" -> 90
               [] action \in {"sleep", "lock"} -> 80
               [] OTHER -> c3
      \* Open/close app
      i5 == OpenCloseIntent(i4, lower)
      app == IF i5 # i4 THEN AppName(lower) ELSE <<>>
      c5 == IF i5 # i4 THEN 80 ELSE c4
      \* Web search
      i6 == SearchIntent(i5, lower)
      c6 == IF i6 # i5 THEN 80 ELSE c5
      \* File actions, optimize, screenshot
      i7 == TailIntent(i6, lower)
      c7 == CASE i7 = i6 -> c6
               [] i7 = "file_action" -> 75
               [] i7 = "optimize_system" -> 80
               [] i7 = "screenshot" -> 85
  IN  [intent |-> i7, confidence |-> c7, channel |-> ChannelHint(lower),
       contact |-> contact, message |-> message, app |-> app,
       path |-> <<>>, action |-> action, raw |-> raw]

\* ------------------------------------------------------------------------
\* Time expression parser (don/time_parse.py)
\*
\* An instant is a number of minutes; seconds are not modelled (the target
\* of the parser always has second 0, and every comparison is <=).
\* ------------------------------------------------------------------------

MinutesPerDay == 1440

\* Results of parse_natural_time that are not timestamps.
NoneTime == -1

\* day.replace(hour=..., minute=...) raised ValueError.
RaisedTime == -2

\* int(c) for a digit character.
DigitVal(c) ==
  CASE c = "0" -> 0 [] c = "1" -> 1 [] c = "2" -> 2 [] c = "3" -> 3
    [] c = "4" -> 4 [] c = "5" -> 5 [] c = "6" -> 6 [] c = "7" -> 7
    [] c = "8" -> 8 [] c = "9" -> 9

IsDigitAt(s, i) == i >= 1 /\ i <= Len(s) /\ s[i] \in Digits

\* int() of the one or two digits of s starting at i.
NumVal(s, i, n) ==
  IF n = 2 THEN 10 * DigitVal(s[i]) + DigitVal(s[i + 1]) ELSE DigitVal(s[i])

\* The unit alternatives of the numeral pattern.
TimeUnits ==
  << <<"b","a","j","e">>, <<"a","m">>, <<"p","m">> >>

\* \s*(?:baje|am|pm)?\b can match from index r, which follows a digit:
\* the digit is followed by the end, by a non-word character, or by a unit
\* that ends at a word boundary.
NumeralEndOK(s, r) ==
  \/ r > Len(s)
  \/ ~IsWordChar(s[r])
  \/ \E k \in DOMAIN TimeUnits :
        /\ MatchAt(s, r, TimeUnits[k])
        /\ WordBoundary(s, r + Len(TimeUnits[k]))

\* r"\b(\d{1,2})(?:\s*[:\.](\d{1,2}))?\s*(?:baje|am|pm)?\b" tried at index i:
\* the groups of the first successful path, or NoNumeral.
NoNumeral == [found |-> FALSE, hour |-> 0, minute |-> 0]

NumeralAt(s, i) ==
  IF ~(WordBoundary(s, i) /\ IsDigitAt(s, i)) THEN NoNumeral
  ELSE
    LET hd == IF IsDigitAt(s, i + 1) THEN 2 ELSE 1
        p  == i + hd
        q  == SkipSpaces(s, p)
        hasMin == q <= Len(s) /\ s[q] \in {":", "."} /\ IsDigitAt(s, q + 1)
        md == IF IsDigitAt(s, q + 2) THEN 2 ELSE 1
    IN  IF hasMin /\ NumeralEndOK(s, q + 1 + md)
        THEN [found |-> TRUE, hour |-> NumVal(s, i, hd), minute |-> NumVal(s, q + 1, md)]
        ELSE IF NumeralEndOK(s, p)
        THEN [found |-> TRUE, hour |-> NumVal(s, i, hd), minute |-> 0]
        ELSE NoNumeral

\* The groups of the match at index i, or NoNumeral when i is 0.
NumeralOrNone(s, i) == IF i = 0 THEN NoNumeral ELSE NumeralAt(s, i)

\* re.search of the numeral pattern: the leftmost index with a match.
FirstNumeral(s) ==
  NumeralOrNone(s, First({j \in 1..Len(s) : NumeralAt(s, j).found}))

\* PARTS, in insertion order.
PARTS ==
  << [part |-> <<"s","u","b","a","h">>, hour |-> 8],
     [part |-> <<"d","o","p","a","h","a","r">>, hour |-> 13],
     [part |-> <<"s","h","a","a","m">>, hour |-> 18],
     [part |-> <<"r","a","a","t">>, hour |-> 21] >>

\* `hour = int(m.group(1))` when the pattern matched (lines 34-40): the
\* hour, or -1 for None.
MatchHour(m) == IF m.found THEN m.hour ELSE -1

\* The pm hint (lines 45-46) applied to hour h0.
PmHour(s, h0) ==
  IF HasWord(s, <<"p","m">>) /\ h0 # -1 /\ h0 < 12 THEN h0 + 12 ELSE h0

\* The am hint (lines 47-48) applied to hour h1.
AmHour(s, h1) == IF HasWord(s, <<"a","m">>) /\ h1 = 12 THEN 0 ELSE h1

\* The hour after the numeral and the am/pm hints (lines 37-48), or -1.
NumeralHour(s) == AmHour(s, PmHour(s, MatchHour(FirstNumeral(s))))

\* The part-of-day defaults and the bare "baje" (lines 50-58) applied to
\* hour h.
DefaultHour(s, h) ==
  LET k == First({n \in DOMAIN PARTS : Contains(s, PARTS[n].part)})
  IN  IF h # -1 THEN h
      ELSE IF k # 0 THEN PARTS[k].hour
      ELSE IF Contains(s, <<"b","a","j","e">>) THEN 9
      ELSE -1

\* The hour after the part-of-day defaults and the bare "baje" (lines 50-58).
ResolvedHour(s) == DefaultHour(s, NumeralHour(s))

\* TargetTime taking the date of ref whether or not "kal" was said.
TargetTime_kal_ignored(kal, hour, minute, ref) ==
  LET target == (ref \div MinutesPerDay) * MinutesPerDay + hour * 60 + minute
  IN  IF hour = -1 THEN NoneTime
      ELSE IF hour > 23 \/ minute > 59 THEN RaisedTime
      ELSE IF target <= ref THEN target + MinutesPerDay
      ELSE target

\* TargetTime without the push to the next day (lines 65-66).
TargetTime_no_rollover(kal, hour, minute, ref) ==
  LET day    == IF kal THEN ref + MinutesPerDay ELSE ref
      target == (day \div MinutesPerDay) * MinutesPerDay + hour * 60 + minute
  IN  IF hour = -1 THEN NoneTime
      ELSE IF hour > 23 \/ minute > 59 THEN RaisedTime
      ELSE target

\* TargetTime rolling forward only when the target is strictly before ref.
TargetTime_strict_rollover(kal, hour, minute, ref) ==
  LET day    == IF kal THEN ref + MinutesPerDay ELSE ref
      target == (day \div MinutesPerDay) * MinutesPerDay + hour * 60 + minute
  IN  IF hour = -1 THEN NoneTime
      ELSE IF hour > 23 \/ minute > 59 THEN RaisedTime
      ELSE IF target < ref /\ ~kal THEN target + MinutesPerDay
      ELSE target

\* Lines 60-68 for the day offset, hour and minute found: the target
\* instant, rolled forward by one day when it is not after ref and "kal"
\* was not said; NoneTime without an hour; RaisedTime when day.replace
\* rejects the hour or the minute.
TargetTime(kal, hour, minute, ref) ==
  LET day    == IF kal THEN ref + MinutesPerDay ELSE ref
      target == (day \div MinutesPerDay) * MinutesPerDay + hour * 60 + minute
  IN  IF hour = -1 THEN NoneTime
      ELSE IF hour > 23 \/ minute > 59 THEN RaisedTime
      ELSE IF target <= ref /\ ~kal THEN target + MinutesPerDay
      ELSE target

\* Lines 24-68 for the lower-cased text s.
ResolveTime(s, ref) ==
  TargetTime(HasWord(s, <<"k","a","l">>), ResolvedHour(s),
             FirstNumeral(s).minute, ref)

\* parse_natural_time(text, now): a timestamp, NoneTime, or RaisedTime when
\* the call raises.
parse_natural_time(text, ref) ==
  IF OrEmpty(text) = <<>> THEN NoneTime ELSE ResolveTime(Lower(text), ref)

\* ------------------------------------------------------------------------
\* Safety gate (don/safety.py)
\*
\* An environment variable holds a text, or NoneText when it is not set.
\* ------------------------------------------------------------------------

\* os.getenv(name, default)
GetEnv(val, default) == IF val = NoneText THEN default ELSE val

SimTruthy ==
  { <<"1">>, <<"t","r","u","e">>, <<"t">>, <<"y","e","s">>, <<"y">> }

ConfirmTruthy ==
  { <<"1">>, <<"t","r","u","e">>, <<"t">>, <<"y","e","s">>, <<"y">>, <<"o","k">> }

is_simulation_mode(simVal) ==
  Lower(Strip(GetEnv(simVal, <<"t","r","u","e">>))) \in SimTruthy

\* is_confirmed reading CONFIRM with the truthy spellings of SIMULATION_MODE.
is_confirmed_sim_spellings(confirmVal) ==
  Lower(Strip(GetEnv(confirmVal, <<"n","o">>))) \in SimTruthy

is_confirmed(confirmVal) ==
  Lower(Strip(GetEnv(confirmVal, <<"n","o">>))) \in ConfirmTruthy

\* require_confirmation without its simulation test (lines 26-28).
require_confirmation_confirm_only(simVal, confirmVal) ==
  is_confirmed(confirmVal)

require_confirmation(simVal, confirmVal) ==
  IF is_simulation_mode(simVal) THEN FALSE
  ELSE IF ~is_confirmed(confirmVal) THEN FALSE
  ELSE TRUE

\* The line require_confirmation logs.
GateLog(simVal, confirmVal) ==
  IF is_simulation_mode(simVal) THEN "[SIMULATION] Would perform"
  ELSE IF ~is_confirmed(confirmVal) THEN "Confirmation required"
  ELSE "Confirmed destructive action"

\* ------------------------------------------------------------------------
\* Collaborators called by the executor
\*
\* A call is evaluated in an environment E = [sim, confirm] (the values of
\* SIMULATION_MODE and CONFIRM) and a world w:
\*   w.found  what executable discovery finds: "none", "exe" or "uri"
\*   w.fails  an operating-system call of this invocation raises
\*   w.procs  the number of running processes that match a name
\*   w.mss    the screenshot library is importable
\*   w.items  the number of files under a path that is deleted
\* Its outcome records the returned value, the real side effects performed
\* (fx), the lines logged instead of an effect in simulation mode (log), the
\* descriptions require_confirmation was called with and its answers (gate),
\* and whether the call raised.
\* ------------------------------------------------------------------------

Out(ok, fx, log, gate) ==
  [ok |-> ok, fx |-> fx, log |-> log, gate |-> gate, raised |-> FALSE]

Raised(fx, log, gate) ==
  [ok |-> FALSE, fx |-> fx, log |-> log, gate |-> gate, raised |-> TRUE]

Sim(E) == is_simulation_mode(E.sim)

\* One call of require_confirmation(description), as an outcome.
Gate(E, description) ==
  Out(require_confirmation(E.sim, E.confirm), {},
      IF Sim(E) THEN {<<"[SIMULATION] Would perform", description>>} ELSE {},
      {<<description,
         IF require_confirmation(E.sim, E.confirm) THEN "granted" ELSE "refused">>})

\* `a and b()` / `if not a: return False; return b()`: b runs only after a
\* returned true; the effects, logs and gate calls of both are kept.
AndThen(a, b) ==
  IF a.raised \/ ~a.ok THEN a
  ELSE [b EXCEPT !.fx = a.fx \cup b.fx, !.log = a.log \cup b.log,
                 !.gate = a.gate \cup b.gate]

\* _run_cmd without its simulation test (lines 37-39).
run_cmd_unguarded(E, w, cmd) ==
  IF w.fails THEN Out(FALSE, {}, {}, {})
  ELSE Out(TRUE, {<<"spawn", cmd>>}, {}, {})

\* system_control._run_cmd(cmd)
run_cmd(E, w, cmd) ==
  IF Sim(E) THEN Out(TRUE, {}, {<<"[SIMULATION] Would run", cmd>>}, {})
  ELSE IF w.fails THEN Out(FALSE, {}, {}, {})
  ELSE Out(TRUE, {<<"spawn", cmd>>}, {}, {})

shutdown(E, w) == AndThen(Gate(E, "shutdown"), run_cmd(E, w, "shutdown /s"))

restart(E, w) == AndThen(Gate(E, "restart"), run_cmd(E, w, "shutdown /r"))

sleep(E, w) == AndThen(Gate(E, "sleep"), run_cmd(E, w, "SetSuspendState"))

lock(E, w) == run_cmd(E, w, "LockWorkStation")

\* system_control.kill_process(pid)
kill_process(E, w) ==
  AndThen(Gate(E, "kill process"),
          IF Sim(E) THEN Out(TRUE, {}, {<<"[SIMULATION] Would kill", "pid">>}, {})
          ELSE IF w.fails THEN Out(FALSE, {}, {}, {})
          ELSE Out(TRUE, {<<"terminate", "pid">>}, {}, {}))

\* system_control.take_screenshot(path)
take_screenshot(E, w) ==
  IF ~w.mss THEN Out(FALSE, {}, {}, {})
  ELSE IF Sim(E) THEN Out(TRUE, {}, {<<"[SIMULATION] Would save screenshot", "screenshot.png">>}, {})
  ELSE IF w.fails THEN Out(FALSE, {}, {}, {})
  ELSE Out(TRUE, {<<"write", "screenshot.png">>}, {}, {})

\* app_control.open_app(app_key) for a bare application key.
open_app(E, w) ==
  IF w.found = "none" THEN Out(FALSE, {}, {}, {})
  ELSE IF Sim(E) THEN Out(TRUE, {}, {<<"[SIMULATION] Would open app", w.found>>}, {})
  ELSE IF w.fails THEN Out(FALSE, {}, {}, {})
  ELSE Out(TRUE, {<<"spawn", "app">>}, {}, {})

\* app_control.close_app_by_name(process_name) > 0; the process iteration is
\* outside the function's try block, so its failure raises to the caller.
close_app_by_name(E, w) ==
  AndThen(Gate(E, "terminate processes"),
          IF w.fails THEN Raised({}, {}, {})
          ELSE IF w.procs = 0 THEN Out(FALSE, {}, {}, {})
          ELSE IF Sim(E) THEN Out(TRUE, {}, {<<"[SIMULATION] Would terminate", "processes">>}, {})
          ELSE Out(TRUE, {<<"terminate", "processes">>}, {}, {}))

\* browser_control.google_search(settings, query) -> open_url
google_search(E, w) ==
  IF w.found = "none" THEN Out(FALSE, {}, {}, {})
  ELSE IF Sim(E) THEN Out(TRUE, {}, {<<"[SIMULATION] Would open URL", "google">>}, {})
  ELSE IF w.fails THEN Out(FALSE, {}, {}, {})
  ELSE Out(TRUE, {<<"spawn", "browser">>}, {}, {})

\* whatsapp_desktop.launch_whatsapp(settings)
launch_whatsapp(E, w) ==
  IF w.found = "none" THEN Out(FALSE, {}, {}, {})
  ELSE IF Sim(E) THEN Out(TRUE, {}, {<<"[SIMULATION] Would launch", "WhatsApp Desktop">>}, {})
  ELSE IF w.fails THEN Out(FALSE, {}, {}, {})
  ELSE Out(TRUE, {<<"spawn", "WhatsApp Desktop">>}, {}, {})

\* whatsapp_web.build_chrome(settings): ok means a driver was returned.
build_chrome(E, w) ==
  IF Sim(E) THEN Out(FALSE, {}, {<<"[SIMULATION] Would start Chrome", "profile">>}, {})
  ELSE IF w.fails THEN Out(FALSE, {}, {}, {})
  ELSE Out(TRUE, {<<"spawn", "chromedriver">>}, {}, {})

\* WhatsAppAutomation._ensure_channel(prefer_web): ok means a channel was
\* returned ("web" or "desktop"), not ok means "".
ensure_channel(E, w, prefer_web) ==
  LET web == [build_chrome(E, w) EXCEPT !.ok = @ \/ Sim(E)]
      desk == launch_whatsapp(E, w)
  IN  IF prefer_web THEN web
      ELSE IF desk.ok THEN desk
      ELSE [web EXCEPT !.fx = desk.fx \cup @, !.log = desk.log \cup @]

\* The send itself: _log_send and the spoken confirmation.
deliver(E, kind) ==
  IF Sim(E) THEN Out(TRUE, {}, {<<"[SIMULATION] Would send", kind>>}, {})
  ELSE Out(TRUE, {<<"send", kind>>}, {}, {})

\* WhatsAppAutomation.send_text(contact, message, prefer_web)
send_text(E, w, prefer_web) ==
  AndThen(ensure_channel(E, w, prefer_web),
          AndThen(Gate(E, "send WhatsApp message preview"), deliver(E, "text")))

\* WhatsAppAutomation.send_media(contact, path, kind, prefer_web)
send_media(E, w, prefer_web) ==
  IF w.found = "none" THEN Out(FALSE, {}, {}, {})
  ELSE AndThen(ensure_channel(E, w, prefer_web), deliver(E, "media"))

confirm_threshold == 5

\* file_control.delete_path(path): w.items files are under the path.
delete_path(E, w) ==
  LET gate == IF w.items > confirm_threshold THEN Gate(E, "delete")
              ELSE Out(TRUE, {}, {}, {})
  IN  AndThen(gate,
              IF Sim(E) THEN Out(TRUE, {}, {<<"[SIMULATION] Would delete", "path">>}, {})
              ELSE IF w.fails THEN Out(FALSE, {}, {}, {})
              ELSE Out(TRUE, {<<"delete", "path">>}, {}, {}))

\* dev_api._result(ok, method, detail, meta)
ApiResult(ok, method, detail) ==
  [ok |-> ok, method |-> method, detail |-> detail, meta |-> <<>>]

\* dev_api.optimize_system(): the gate call of the function.
optimize_gate(E) == Gate(E, "optimize system cleanup")

optimize_system(E) ==
  IF optimize_gate(E).ok
  THEN ApiResult(TRUE, "system", "Optimization completed")
  ELSE ApiResult(FALSE, "system", "Optimization blocked or simulated")

\* ------------------------------------------------------------------------
\* Settings (don/config.py)
\* ------------------------------------------------------------------------

\* float(s) succeeds for a decimal numeral (the forms used here).
IsFloatText(s) ==
  LET t == Strip(s)
  IN  /\ t # <<>>
      /\ \A i \in 1..Len(t) : t[i] \in Digits \cup {"."}
      /\ \E i \in 1..Len(t) : t[i] \in Digits
      /\ Cardinality({i \in 1..Len(t) : t[i] = "."}) <= 1

\* load_settings(): the value it leaves in SIMULATION_MODE.  simulate is the
\* "simulate" key of the settings file: "absent", "true" or "false".
SettingsSimEnv(simVal, simulate) ==
  IF simulate # "absent" /\ simVal = NoneText
  THEN IF simulate = "true" THEN <<"t","r","u","e">> ELSE <<"f","a","l","s","e">>
  ELSE simVal

\* load_settings() raises: float() of the SIMILARITY_THRESHOLD override.
SettingsRaises(thresholdVal) ==
  thresholdVal # NoneText /\ ~IsFloatText(thresholdVal)

\* dev_api.send_whatsapp_message(contact, message, channel): load_settings,
\* then WhatsAppAutomation(settings).send_text; ok of the result is what
\* send_text returned.  An exception of load_settings leaves the function.
send_whatsapp_message(simVal, confirmVal, simulate, thresholdVal, w, channel) ==
  IF SettingsRaises(thresholdVal) THEN Raised({}, {}, {})
  ELSE send_text([sim |-> SettingsSimEnv(simVal, simulate), confirm |-> confirmVal],
                 w, channel = "web")

\* ------------------------------------------------------------------------
\* Reminder store and Scheduler.schedule* (don/scheduler.py)
\* ------------------------------------------------------------------------

\* The INSERT giving every row the id 1.
NewReminder_first_id(rows, when_ts, title) ==
  [id |-> 1, when_ts |-> when_ts, title |-> title, status |-> "pending"]

\* The row INSERT adds to a store holding rows: the id is the next
\* AUTOINCREMENT value.
NewReminder(rows, when_ts, title) ==
  [id |-> Len(rows) + 1, when_ts |-> when_ts, title |-> title, status |-> "pending"]

\* Scheduler.schedule(when_ts, title): the returned value and the store after.
schedule(rows, when_ts, title, dbFails) ==
  IF dbFails THEN [ok |-> FALSE, rows |-> rows]
  ELSE [ok |-> TRUE, rows |-> Append(rows, NewReminder(rows, when_ts, title))]

\* schedule_from_text without its test of the parser's result (lines 61-63):
\* an unresolved time is scheduled at the present instant.
schedule_from_text_no_none_test(rows, txt, title, nowv, dbFails) ==
  IF parse_natural_time(txt, nowv) \in {NoneTime, RaisedTime}
  THEN schedule(rows, nowv, title, dbFails)
  ELSE schedule(rows, parse_natural_time(txt, nowv), title, dbFails)

\* Scheduler.schedule_from_text(text, title) at instant nowv.
schedule_from_text(rows, txt, title, nowv, dbFails) ==
  LET when == parse_natural_time(txt, nowv)
  IN  IF when = NoneTime THEN [ok |-> FALSE, rows |-> rows]
      ELSE IF when = RaisedTime THEN [ok |-> FALSE, rows |-> rows]
      ELSE schedule(rows, when, title, dbFails)

\* ------------------------------------------------------------------------
\* Command executor (don/executor.py)
\* ------------------------------------------------------------------------

\* What one call of execute_command did: the returned record (result), or
\* raised; whether the except clause caught an exception of the handler
\* (caught); the side effects, log lines and gate calls of the handler; the
\* value left in SIMULATION_MODE; the reminder store after the call.
\* A handler that raised is caught by the except clause (lines 90-92), which
\* returns the error record.
Done(result, o, simVal, rows) ==
  [raised |-> FALSE, caught |-> o.raised,
   result |-> IF o.raised
              THEN [ok |-> FALSE, handler |-> "error", error |-> "handler raised"]
              ELSE result,
   fx |-> o.fx, log |-> o.log, gate |-> o.gate, sim |-> simVal, rows |-> rows]

NoOut == Out(FALSE, {}, {}, {})

\* The rules after the system-action rule (lines 69-88).
RouteTail(res, intent, E, w, rows, nowv) ==
  IF intent \in {"optimize_system", "cleanup", "boost"}
  THEN Done(optimize_system(E), optimize_gate(E), E.sim, rows)
  ELSE IF intent \in {"screenshot", "take_screenshot", "capture"}
  THEN LET o == take_screenshot(E, w)
       IN  Done([ok |-> o.ok, handler |-> "screenshot", path |-> "screenshot.png"],
                o, E.sim, rows)
  ELSE IF intent \in {"schedule", "reminder", "set_alarm"}
  THEN LET s == schedule_from_text(rows, res.raw, "Reminder", nowv, w.fails)
       IN  Done([ok |-> s.ok, handler |-> "schedule"], NoOut, E.sim, s.rows)
  ELSE IF intent = "error_analysis"
  THEN Done([ok |-> TRUE, handler |-> "error_analysis"], NoOut, E.sim, rows)
  ELSE Done([ok |-> FALSE, handler |-> "unknown", raw_intent |-> intent,
             parsed |-> res], NoOut, E.sim, rows)

\* The try block of execute_command (lines 25-68); the later rules are RouteTail.
Route(res, intent, E, w, rows, nowv) ==
  IF intent \in {"send_whatsapp", "whatsapp_message", "send_message"}
  THEN LET o == send_text(E, w, res.channel = "web")
       IN  Done([ok |-> o.ok, handler |-> "whatsapp"], o, E.sim, rows)
  ELSE IF intent \in {"open", "open_app", "launch", "run", "start"}
  THEN LET app_name == Lower(Strip(res.app))
           o == open_app(E, w)
       IN  IF app_name = <<>>
           THEN Done([ok |-> FALSE, handler |-> "open_app", reason |-> "no_app"],
                     NoOut, E.sim, rows)
           ELSE Done([ok |-> o.ok, handler |-> "open_app", app |-> app_name],
                     o, E.sim, rows)
  ELSE IF intent \in {"close", "close_app", "exit", "terminate", "shutdown_app"}
  THEN LET app_name == Lower(Strip(res.app))
           o == close_app_by_name(E, w)
       IN  IF app_name = <<>>
           THEN Done([ok |-> FALSE, handler |-> "close_app", reason |-> "no_app"],
                     NoOut, E.sim, rows)
           ELSE Done([ok |-> o.ok, handler |-> "close_app", app |-> app_name],
                     o, E.sim, rows)
  ELSE IF intent \in {"search_web", "google", "search"}
  THEN LET o == google_search(E, w)
       IN  Done([ok |-> o.ok, handler |-> "search_web", query |-> res.raw],
                o, E.sim, rows)
  ELSE LET action == IF res.action # "" THEN res.action ELSE intent
       IN  IF intent \in {"system_action", "shutdown", "restart", "sleep", "lock"}
              /\ action \in {"shutdown", "restart", "sleep", "lock"}
           THEN LET o == CASE action = "shutdown" -> shutdown(E, w)
                           [] action = "restart" -> restart(E, w)
                           [] action = "sleep" -> sleep(E, w)
                           [] action = "lock" -> lock(E, w)
                IN  Done([ok |-> o.ok, handler |-> action], o, E.sim, rows)
           ELSE RouteTail(res, intent, E, w, rows, nowv)

\* The commands the executor is called with: the scenarios of the test suite
\* and at least one command for every routing rule.
Commands ==
  { NoneText,
    <<"w","h","a","t","s","a","p","p"," ","p","e"," ","A","l","i"," ","k","o"," ","m","s","g"," ","k","a","r","o"," ","\"","h","e","l","l","o","\"">>,
    <<"w","h","a","t","s","a","p","p"," ","w","e","b"," ","p","e"," ","z","a","i","d"," ","k","o"," ","b","o","l","o"," ","h","i">>,
    <<"c","h","r","o","m","e"," ","k","h","o","l","o">>,
    <<"k","h","o","l","o">>,
    <<"c","l","o","s","e"," ","c","h","r","o","m","e">>,
    <<"y","o","u","t","u","b","e"," ","p","e"," ","s","e","a","r","c","h"," ","k","a","r","o">>,
    <<"s","h","u","t","d","o","w","n"," ","k","r"," ","d","o"," ","m","e","r","a"," ","p","c">>,
    <<"r","e","s","t","a","r","t">>,
    <<"s","l","e","e","p">>,
    <<"l","o","c","k">>,
    <<"c","l","e","a","n">>,
    <<"s","c","r","e","e","n","s","h","o","t"," ","l","o">>,
    <<"r","e","m","i","n","d"," ","8"," ","b","a","j","e">>,
    <<"r","e","m","i","n","d"," ","m","e">>,
    <<"r","e","m","i","n","d"," ","2","5"," ","b","a","j","e">>,
    <<"e","r","r","o","r"," ","d","i","k","h","a","o">>,
    <<"d","e","l","e","t","e"," ","f","i","l","e">>,
    <<"h","e","l","l","o">> }

\* parse_intent of every command, computed once.
ParsedCommands == {<<c, parse_intent(c)>> : c \in Commands}

ParsedCommand(txt) == (CHOOSE p \in ParsedCommands : p[1] = txt)[2]

\* execute_command(raw_text): parse, load the settings, build the WhatsApp
\* automation, then route.  An exception of load_settings is outside the
\* try block and leaves the function.
execute_command(txt, simVal, confirmVal, simulate, thresholdVal, w, rows, nowv) ==
  LET res == ParsedCommand(txt)
      intent == res.intent
      E == [sim |-> SettingsSimEnv(simVal, simulate), confirm |-> confirmVal]
  IN  IF SettingsRaises(thresholdVal)
      THEN [raised |-> TRUE, caught |-> FALSE, result |-> <<>>, fx |-> {},
            log |-> {}, gate |-> {}, sim |-> E.sim, rows |-> rows]
      ELSE Route(res, intent, E, w, rows, nowv)

\* ------------------------------------------------------------------------
\* Inputs of the parser specification
\* ------------------------------------------------------------------------

\* The words and short phrases the input texts are built from: at least one
\* keyword of every category of the cascade, a wake phrase, an upper-case
\* roster name, a "ko <word>" contact, a quoted message and the empty word
\* (which yields leading, trailing and doubled blanks).
Vocabulary ==
  << <<>>,
     <<"w","h","a","t","s","a","p","p">>,
     <<"w","h","a","t","s","a","p","p"," ","m","s","g">>,
     <<"w","e","b">>,
     <<"k","a","r","o">>,
     <<"A","l","i">>,
     <<"k","o"," ","z","a","i","d",".">>,
     <<"\"","h","i","\"">>,
     <<"r","e","m","i","n","d">>,
     <<"e","r","r","o","r">>,
     <<"s","h","u","t","d","o","w","n">>,
     <<"b","a","n","d">>,
     <<"r","e","s","t","a","r","t">>,
     <<"l","o","c","k">>,
     <<"k","h","o","l","o">>,
     <<"c","l","o","s","e">>,
     <<"c","h","r","o","m","e">>,
     <<"s","e","a","r","c","h">>,
     <<"d","e","l","e","t","e">>,
     <<"c","l","e","a","n">>,
     <<"s","c","r","e","e","n","s","h","o","t">>,
     <<"d","o","n">>,
     <<"h","e","y"," ","d","o","n",",">>,
     <<"v","s"," ","c","o","d","e">>,
     <<"b","a","n","d"," ","k","a","r","o">>,
     <<"q","u","i","t">>,
     <<"c","h","r","o","m","e"," ","k","h","o","l","o">> >>

\* " ".join(ws)
RECURSIVE Join(_)
Join(ws) ==
  IF ws = <<>> THEN <<>>
  ELSE IF Len(ws) = 1 THEN ws[1]
  ELSE ws[1] \o <<" ">> \o Join(Tail(ws))

TextsOfWords(n) == {Join(ws) : ws \in [1..n -> Range(Vocabulary)]}

Texts == UNION {TextsOfWords(n) : n \in 0..MaxWords}

Inputs == Texts \cup {NoneText}

\* ------------------------------------------------------------------------
\* State
\* ------------------------------------------------------------------------

VARIABLES
  heard,             \* the utterance heard so far: the argument of parse_intent
  nwords,           \* the number of vocabulary items in it
  parsed,           \* the record parse_intent returned for it, or NotParsed
  simEnv,           \* the environment variable SIMULATION_MODE
  confirmEnv,       \* the environment variable CONFIRM
  thresholdEnv,     \* the environment variable SIMILARITY_THRESHOLD
  settingsSimulate, \* the "simulate" key of the settings file
  request,          \* the argument of the last call
  outcome,          \* what the last call did and returned (NoCall when
                    \* the environment was changed after it)
  reminders,        \* the rows of the reminders table, in insertion order
  now,              \* the clock
  thr,              \* where the sweep thread of the Scheduler is
  stopFlag,         \* Scheduler._stop
  sweepNow,         \* the instant the sweep in progress read from the clock
  dueRows,          \* the selected rows the sweep has still to handle
  marked,           \* ids the sweep has updated and not yet committed
  fired,            \* per reminder id, the "Reminder due" lines logged
  flips,            \* per reminder id, the committed changes of its status
  faults,           \* the store errors that have occurred
  memFile,          \* the content of memory/memory.json
  memLock,          \* the thread that holds _memory_lock, or 0
  memThr,           \* per thread, the memory operation it is in
  memPrev,          \* the last memory operation that returned
  memOps,           \* the number of memory operations called
  loopKind,         \* the class of the background loop
  loopPc,           \* where the loop thread is
  loopStop,         \* the stop flag of the loop
  loopWanted,       \* start() has returned and stop() was not called since
  loopLast,         \* how the last iteration of the loop ended
  loopHandled       \* the number of heard texts handled

parseVars == <<heard, nwords, parsed>>

envVars == <<simEnv, confirmEnv, thresholdEnv, settingsSimulate>>

execVars == <<request, outcome>>

storeVars == <<reminders, now>>

schedVars == <<thr, stopFlag, sweepNow, dueRows, marked, fired, flips, faults>>

memVars == <<memFile, memLock, memThr, memPrev, memOps>>

loopVars == <<loopKind, loopPc, loopStop, loopWanted, loopLast, loopHandled>>

vars == <<heard, nwords, parsed, simEnv, confirmEnv, thresholdEnv,
          settingsSimulate, request, outcome, reminders, now,
          thr, stopFlag, sweepNow, dueRows, marked, fired, flips, faults,
          memFile, memLock, memThr, memPrev, memOps,
          loopKind, loopPc, loopStop, loopWanted, loopLast, loopHandled>>

\* ------------------------------------------------------------------------
\* Bounds and inputs of the executor specification
\* ------------------------------------------------------------------------

\* Most running processes that match an application name.
MaxProcs == 1

\* Most files under a deleted path (confirm_threshold is 5).
MaxItems == 6

\* Most rows of the reminders table.
MaxReminders == 2

\* Most reminders the executor's schedule rule inserts in one behaviour.
MaxScheduled == 1

\* The values SIMULATION_MODE takes: unset, a truthy spelling with blanks and
\* upper case, and "ok", which only CONFIRM accepts.
SimValues ==
  { NoneText, <<" ","Y","e","s"," ">>, <<"o","k">> }

\* The values CONFIRM takes: unset, a truthy spelling with blanks and upper
\* case, and a falsy one.
ConfirmValues ==
  { NoneText, <<" ","O","K"," ">>, <<"n","o">> }

\* The values SIMILARITY_THRESHOLD takes: unset, and a text float() rejects.
ThresholdValues ==
  { NoneText, <<"a","b","c">> }

\* The "simulate" key of the settings file: absent, or false.
SimulateValues == {"absent", "false"}

\* The worlds a call runs in: discovery, operating-system failure and the
\* number of matching processes vary freely; the screenshot library is
\* missing in one of them.
Worlds ==
  [found : {"none", "exe"}, fails : BOOLEAN, procs : 0..MaxProcs,
   mss : {TRUE}, items : {0}]
  \cup {[found |-> "exe", fails |-> FALSE, procs |-> 0, mss |-> FALSE, items |-> 0]}

DeleteWorlds ==
  [found : {"exe"}, fails : BOOLEAN, procs : {0}, mss : {FALSE},
   items : 0..MaxItems]

\* The clock at the start: 07:00 on day 1.
StartInstant == MinutesPerDay + 7 * 60

NoCall == [op |-> "none", raised |-> FALSE, result |-> <<>>, fx |-> {},
           log |-> {}, gate |-> {}]

InitEnv ==
  /\ simEnv = NoneText
  /\ confirmEnv = NoneText
  /\ thresholdEnv = NoneText
  /\ settingsSimulate = "absent"

InitExec ==
  /\ request = <<>>
  /\ outcome = NoCall

InitStore ==
  /\ reminders = <<>>
  /\ now = StartInstant

NotParsed == [intent |-> "<none>"]

\* Scheduler.__init__: no thread, the stop flag clear; nothing swept yet.
InitSched ==
  /\ thr = "none"
  /\ stopFlag = FALSE
  /\ sweepNow = NoneTime
  /\ dueRows = <<>>
  /\ marked = {}
  /\ fired = [id \in 1..MaxReminders |-> 0]
  /\ flips = [id \in 1..MaxReminders |-> 0]
  /\ faults = 0

\* ------------------------------------------------------------------------
\* The memory document (memory/memory.json) and the operations on it
\* ------------------------------------------------------------------------

\* A nicknames map with no entry.
EmptyMap == [n \in {} |-> ""]

\* JSON values: a string, an object of strings (the nicknames map), and a
\* Python value json cannot encode.
Str(v) == [kind |-> "str", s |-> v, m |-> EmptyMap]

Obj(f) == [kind |-> "obj", s |-> "", m |-> f]

Raw == [kind |-> "raw", s |-> "", m |-> EmptyMap]

\* The document {}.
EmptyDoc == [k \in {} |-> Str("")]

\* The document load_m1 returns when there is no file or it cannot be read.
DefaultDocument ==
  [k \in {"nicknames", "preferred_whatsapp_channel", "last_tone"} |->
     IF k = "nicknames" THEN Obj(EmptyMap)
     ELSE IF k = "preferred_whatsapp_channel" THEN Str("desktop")
     ELSE Str("friendly")]

\* memory[key] = value
DocSet(doc, key, value) ==
  [k \in DOMAIN doc \cup {key} |-> IF k = key THEN value ELSE doc[k]]

\* The file: absent, or a text that is a complete JSON object of the pairs,
\* or a text cut short (opened for writing and not yet written, or left by
\* a dump that raised).
NoFile == [exists |-> FALSE, complete |-> FALSE, pairs |-> <<>>]

Truncated == [exists |-> TRUE, complete |-> FALSE, pairs |-> <<>>]

\* json.dump raises TypeError on a value it cannot encode.
Serialisable(doc) == \A k \in DOMAIN doc : doc[k].kind # "raw"

RECURSIVE DumpPairs(_, _)
DumpPairs(doc, ks) ==
  IF ks = {} THEN <<>>
  ELSE LET k == CHOOSE x \in ks : TRUE
       IN  <<<<k, doc[k]>>>> \o DumpPairs(doc, ks \ {k})

\* open(MEMORY_JSON, "w") followed by json.dump(data, f) and close.
json_dump(doc) ==
  IF Serialisable(doc)
  THEN [exists |-> TRUE, complete |-> TRUE, pairs |-> DumpPairs(doc, DOMAIN doc)]
  ELSE Truncated

\* json.load of a complete text: the object of its pairs, a later pair
\* replacing an earlier one with the same key.
json_load(pairs) ==
  [k \in {pairs[i][1] : i \in DOMAIN pairs} |->
     pairs[Max({i \in DOMAIN pairs : pairs[i][1] = k})][2]]

\* load_m1 with default keys merged into what was read.
load_m1_merging_defaults(file) ==
  IF ~file.exists \/ ~file.complete THEN DefaultDocument
  ELSE [k \in DOMAIN DefaultDocument \cup DOMAIN json_load(file.pairs) |->
          IF k \in DOMAIN json_load(file.pairs) THEN json_load(file.pairs)[k]
          ELSE DefaultDocument[k]]

\* load_m1(): the defaults when the file is missing or json.load raises.
load_m1(file) ==
  IF ~file.exists THEN DefaultDocument
  ELSE IF ~file.complete THEN DefaultDocument
  ELSE json_load(file.pairs)

\* m1.setdefault("nicknames", {})[name.lower()] = phone raises TypeError when
\* the value under "nicknames" is not a map.
NicknameSettable(doc) ==
  IF "nicknames" \in DOMAIN doc THEN doc["nicknames"].kind = "obj" ELSE TRUE

Nicknames(doc) ==
  IF "nicknames" \in DOMAIN doc THEN doc["nicknames"].m ELSE EmptyMap

WithNickname(doc, name, phone) ==
  DocSet(doc, "nicknames",
         Obj([n \in DOMAIN Nicknames(doc) \cup {Lower(name)} |->
                IF n = Lower(name) THEN phone ELSE Nicknames(doc)[n]]))

\* No operation takes _memory_lock.
Locked_none(op) == FALSE

\* The operations that run inside "with _memory_lock".
Locked(op) == op \in {"read", "write", "update", "get"}

\* The two threads and the two MemoryManager instances.
MemThreads == {1, 2}

MemInstances == {1, 2}

\* A thread that has called nothing.
MemIdle ==
  [pc |-> "idle", op |-> "none", inst |-> 1, key |-> "", value |-> Str(""),
   name |-> <<>>, doc |-> EmptyDoc, ok |-> FALSE, seq |-> 0, conc |-> FALSE]

\* The last operation that returned.
NoReturn ==
  [op |-> "none", doc |-> EmptyDoc, ok |-> FALSE, seq |-> 0, conc |-> FALSE,
   ops |-> 0]

InitMem ==
  /\ memFile = NoFile
  /\ memLock = 0
  /\ memThr = [t \in MemThreads |-> MemIdle]
  /\ memPrev = NoReturn
  /\ memOps = 0

\* ------------------------------------------------------------------------
\* Background loops: Scheduler._run, BackgroundListener._loop,
\* BackgroundConversation._run and the listen_loop of CommsAI
\* ------------------------------------------------------------------------

LoopKinds ==
  {"Scheduler", "BackgroundListener", "BackgroundConversation", "CommsAI"}

\* The loops that listen for speech and hand the text on.
ListenKinds == {"BackgroundListener", "CommsAI"}

\* The loop thread exists and has not returned.
Alive(pc) == pc \notin {"none", "dead"}

\* `while True`: the loop condition without the stop flag.
AfterTest_flag_ignored(kind, stop) ==
  IF kind = "BackgroundConversation" THEN "sleep" ELSE "body"

\* `while not self._stop` (`self._stop_flag`, `self.stop_flag`,
\* `while self.is_listening`):
\* the thread returns when the flag is set, and otherwise enters the body,
\* which for BackgroundConversation is the sleep alone.
AfterTest(kind, stop) ==
  IF stop THEN "dead"
  ELSE IF kind = "BackgroundConversation" THEN "sleep" ELSE "body"

\* An exception of the body leaves the loop function: the thread ends.
AfterBody_uncaught(kind, result) ==
  IF result = "raised" THEN "dead" ELSE "sleep"

\* The try/except of the loop body: whatever the iteration did, the thread
\* goes on to the sleep at the end of the iteration (the back-off sleep of
\* CommsAI after an exception).
AfterBody(kind, result) == "sleep"

\* How handling one heard text can end, by loop: the callback of
\* BackgroundListener returns or raises; _process_command of CommsAI returns
\* success or failure, and the spoken feedback can raise.
HandleResults(kind) ==
  IF kind = "CommsAI" THEN {"ok", "failed", "raised"} ELSE {"ok", "raised"}

\* No loop thread started, no flag set; nothing handled yet.
InitLoop ==
  /\ loopPc = "none"
  /\ loopStop = FALSE
  /\ loopWanted = FALSE
  /\ loopLast = "none"
  /\ loopHandled = 0

\* The other specifications have no background loop of this kind.
NoLoop == loopKind = "Scheduler" /\ InitLoop

\* ------------------------------------------------------------------------
\* Parser specification: parse_intent applied to every input
\* ------------------------------------------------------------------------

InitParse ==
  /\ heard \in {<<>>, NoneText}
  /\ nwords = 0
  /\ parsed = NotParsed
  /\ InitEnv /\ InitExec /\ InitStore /\ InitSched /\ InitMem /\ NoLoop

\* One more word or phrase of the utterance is heard.
Hear(w) ==
  /\ nwords < MaxWords
  /\ heard # NoneText
  /\ heard' = IF nwords = 0 THEN w ELSE heard \o <<" ">> \o w
  /\ nwords' = nwords + 1
  /\ parsed' = NotParsed
  /\ UNCHANGED <<loopVars, memVars, envVars, execVars, storeVars, schedVars>>

\* parse_intent(heard) returns.
ParseIntent ==
  /\ parsed = NotParsed
  /\ parsed' = parse_intent(heard)
  /\ UNCHANGED <<loopVars, memVars, heard, nwords, envVars, execVars, storeVars, schedVars>>

NextParse ==
  \/ \E w \in Range(Vocabulary) : Hear(w)
  \/ ParseIntent

SpecParse == InitParse /\ [][NextParse]_vars

\* ------------------------------------------------------------------------
\* Executor specification: the environment is set, the settings file is
\* written, and execute_command and the gated collaborators are called
\* ------------------------------------------------------------------------

InitExecSpec ==
  /\ heard = <<>> /\ nwords = 0 /\ parsed = NotParsed
  /\ InitEnv /\ InitExec /\ InitStore /\ InitSched /\ InitMem /\ NoLoop

\* The environment and the settings file are changed between calls; the
\* record of the last call is dropped, so that outcome always describes a
\* call made in the present environment.
SetSimulationMode(v) ==
  /\ simEnv' = v
  /\ request' = <<>> /\ outcome' = NoCall
  /\ UNCHANGED <<loopVars, memVars, parseVars, confirmEnv, thresholdEnv, settingsSimulate, storeVars, schedVars>>

SetConfirm(v) ==
  /\ confirmEnv' = v
  /\ request' = <<>> /\ outcome' = NoCall
  /\ UNCHANGED <<loopVars, memVars, parseVars, simEnv, thresholdEnv, settingsSimulate, storeVars, schedVars>>

SetThreshold(v) ==
  /\ thresholdEnv' = v
  /\ request' = <<>> /\ outcome' = NoCall
  /\ UNCHANGED <<loopVars, memVars, parseVars, simEnv, confirmEnv, settingsSimulate, storeVars, schedVars>>

WriteSettings(v) ==
  /\ settingsSimulate' = v
  /\ request' = <<>> /\ outcome' = NoCall
  /\ UNCHANGED <<loopVars, memVars, parseVars, simEnv, confirmEnv, thresholdEnv, storeVars, schedVars>>

\* The outcome of a collaborator called directly, as the state records it.
Called(op, o) ==
  [op |-> op, raised |-> o.raised, result |-> o.ok, fx |-> o.fx,
   log |-> o.log, gate |-> o.gate]

Env == [sim |-> simEnv, confirm |-> confirmEnv]

\* require_confirmation(description)
CallRequireConfirmation(description) ==
  /\ request' = <<>>
  /\ outcome' = Called("require_confirmation", Gate(Env, description))
  /\ UNCHANGED <<loopVars, memVars, parseVars, envVars, storeVars, schedVars>>

\* execute_command(txt) in world w.
ExecuteCommand(txt, w) ==
  \E x \in {execute_command(txt, simEnv, confirmEnv, settingsSimulate,
                             thresholdEnv, w, reminders, now)} :
      /\ Len(x.rows) <= MaxScheduled
      /\ request' = txt
      /\ outcome' = [op |-> "execute_command", raised |-> x.raised,
                     caught |-> x.caught, result |-> x.result, fx |-> x.fx,
                     log |-> x.log, gate |-> x.gate]
      /\ simEnv' = x.sim
      /\ reminders' = x.rows
      /\ UNCHANGED <<loopVars, memVars, parseVars, confirmEnv, thresholdEnv, settingsSimulate, now,
                     schedVars>>

\* file_control.delete_path(path)
CallDeletePath(w) ==
  /\ request' = <<>>
  /\ outcome' = Called("delete_path", delete_path(Env, w))
  /\ UNCHANGED <<loopVars, memVars, parseVars, envVars, storeVars, schedVars>>

\* system_control.kill_process(pid)
CallKillProcess(w) ==
  /\ request' = <<>>
  /\ outcome' = Called("kill_process", kill_process(Env, w))
  /\ UNCHANGED <<loopVars, memVars, parseVars, envVars, storeVars, schedVars>>

\* WhatsAppAutomation(settings).send_media(contact, path)
CallSendMedia(w) ==
  /\ request' = <<>>
  /\ outcome' = Called("send_media", send_media(Env, w, FALSE))
  /\ UNCHANGED <<loopVars, memVars, parseVars, envVars, storeVars, schedVars>>

\* WhatsAppAutomation(settings).send_text(contact, message, prefer_web)
CallSendText(w, prefer_web) ==
  /\ request' = <<>>
  /\ outcome' = Called("send_text", send_text(Env, w, prefer_web))
  /\ UNCHANGED <<loopVars, memVars, parseVars, envVars, storeVars, schedVars>>

\* config.load_settings(): the SIMULATION_MODE write (lines 83-84) comes
\* before the float() that may raise (line 89).
CallLoadSettings ==
  /\ request' = <<>>
  /\ outcome' = Called("load_settings",
                       IF SettingsRaises(thresholdEnv) THEN Raised({}, {}, {})
                       ELSE [ok |-> TRUE, fx |-> {}, log |-> {}, gate |-> {},
                             raised |-> FALSE])
  /\ simEnv' = SettingsSimEnv(simEnv, settingsSimulate)
  /\ UNCHANGED <<loopVars, memVars, parseVars, confirmEnv, thresholdEnv, settingsSimulate,
                 storeVars, schedVars>>

\* dev_api.send_whatsapp_message(contact, message, channel)
CallSendWhatsappMessage(w, channel) ==
  /\ request' = <<>>
  /\ outcome' = Called("send_whatsapp_message",
                       send_whatsapp_message(simEnv, confirmEnv, settingsSimulate,
                                             thresholdEnv, w, channel))
  /\ simEnv' = SettingsSimEnv(simEnv, settingsSimulate)
  /\ UNCHANGED <<loopVars, memVars, parseVars, confirmEnv, thresholdEnv, settingsSimulate,
                 storeVars, schedVars>>

NextExec ==
  \/ \E v \in SimValues : SetSimulationMode(v)
  \/ \E v \in ConfirmValues : SetConfirm(v)
  \/ \E v \in ThresholdValues : SetThreshold(v)
  \/ \E v \in SimulateValues : WriteSettings(v)
  \/ \E d \in {"shutdown", "delete"} : CallRequireConfirmation(d)
  \/ \E c \in Commands, w \in Worlds : ExecuteCommand(c, w)
  \/ \E w \in DeleteWorlds : CallDeletePath(w)
  \/ \E w \in Worlds : CallKillProcess(w)
  \/ \E w \in Worlds : CallSendMedia(w)
  \/ \E w \in Worlds, prefer_web \in BOOLEAN : CallSendText(w, prefer_web)
  \/ \E w \in Worlds, channel \in {"auto", "web"} : CallSendWhatsappMessage(w, channel)
  \/ CallLoadSettings

SpecExec == InitExecSpec /\ [][NextExec]_vars

\* ------------------------------------------------------------------------
\* Scheduler specification: one Scheduler whose sweep thread runs _run one
\* statement at a time, while the clock advances and reminders are inserted
\* by schedule and schedule_from_text
\* ------------------------------------------------------------------------

\* Hours the clock advances within a day.
MaxHours == 1

\* Most store errors the sweep meets in one behaviour.
MaxFaults == 1

\* The instants the clock takes: the hours 07:00 .. 07:00 + MaxHours of the
\* first day and of the next.
LastInstant == StartInstant + MinutesPerDay + MaxHours * 60

ClockSteps == {60, MinutesPerDay}

\* The timestamps schedule is called with: one hour before and one hour
\* after the start.
WhenValues == {StartInstant - 60, StartInstant + 60}

\* The texts schedule_from_text is called with.
TimeTexts ==
  { <<"8"," ","b","a","j","e">>,
    <<"r","e","m","i","n","d"," ","m","e">>,
    <<"2","5"," ","b","a","j","e">> }

InitSchedSpec ==
  /\ heard = <<>> /\ nwords = 0 /\ parsed = NotParsed
  /\ InitEnv /\ InitExec /\ InitStore /\ InitSched /\ InitMem /\ NoLoop

\* time passes
Tick(d) ==
  /\ now + d <= LastInstant
  /\ (now + d - StartInstant) % MinutesPerDay <= MaxHours * 60
  /\ now' = now + d
  /\ UNCHANGED <<loopVars, memVars, parseVars, envVars, execVars, reminders, schedVars>>

\* The value a call of schedule or schedule_from_text returned.
Scheduled(op, r) ==
  [op |-> op, raised |-> FALSE, result |-> r.ok, fx |-> {}, log |-> {},
   gate |-> {}]

\* Scheduler.schedule(when_ts, title).  An INSERT waits while the sweep
\* holds the write lock of its uncommitted UPDATEs, unless it fails.
ScheduleAt(when_ts, dbFails) ==
  /\ dbFails \/ (marked = {} /\ Len(reminders) < MaxReminders)
  /\ \E r \in {schedule(reminders, when_ts, "Reminder", dbFails)} :
        /\ reminders' = r.rows
        /\ outcome' = Scheduled("schedule", r)
  /\ request' = <<>>
  /\ UNCHANGED <<loopVars, memVars, parseVars, envVars, now, schedVars>>

\* Scheduler.schedule_from_text(text, title)
ScheduleFromText(txt, dbFails) ==
  /\ request' = txt
  /\ UNCHANGED <<loopVars, memVars, parseVars, envVars, now, schedVars>>
  /\ \E r \in {schedule_from_text(reminders, txt, "Reminder", now, dbFails)} :
        /\ r.rows # reminders => marked = {} /\ Len(reminders) < MaxReminders
        /\ reminders' = r.rows
        /\ outcome' = Scheduled("schedule_from_text", r)

\* Scheduler.start(): nothing when the thread is alive; else the stop flag
\* is cleared and a thread is started.
Start ==
  /\ IF thr \in {"none", "dead"}
     THEN stopFlag' = FALSE /\ thr' = "check"
     ELSE UNCHANGED <<thr, stopFlag>>
  /\ UNCHANGED <<loopVars, memVars, parseVars, envVars, execVars, storeVars, sweepNow, dueRows,
                 marked, fired, flips, faults>>

\* Scheduler.stop()
Stop ==
  /\ stopFlag' = TRUE
  /\ UNCHANGED <<loopVars, memVars, parseVars, envVars, execVars, storeVars, thr, sweepNow,
                 dueRows, marked, fired, flips, faults>>

\* `while not self._stop`
LoopCheck ==
  /\ thr = "check"
  /\ thr' = IF stopFlag THEN "dead" ELSE "clock"
  /\ UNCHANGED <<loopVars, memVars, parseVars, envVars, execVars, storeVars, stopFlag, sweepNow,
                 dueRows, marked, fired, flips, faults>>

\* `now = time.time()`
ReadClock ==
  /\ thr = "clock"
  /\ sweepNow' = now
  /\ thr' = "select"
  /\ UNCHANGED <<loopVars, memVars, parseVars, envVars, execVars, storeVars, stopFlag, dueRows,
                 marked, fired, flips, faults>>

\* SELECT ... WHERE status='pending' AND when_ts<=now; fetchall()
\* The WHERE clause without its comparison of when_ts.
IsDue_any_pending(r, t) == r.status = "pending"

IsDue(r, t) == r.status = "pending" /\ r.when_ts <= t

SweepSelect ==
  /\ thr = "select"
  /\ dueRows' = SelectSeq(reminders, LAMBDA r : IsDue(r, sweepNow))
  /\ thr' = "rows"
  /\ UNCHANGED <<loopVars, memVars, parseVars, envVars, execVars, storeVars, stopFlag, sweepNow,
                 marked, fired, flips, faults>>

\* One turn of the for loop: the "Reminder due" line, then the UPDATE.
SweepRow ==
  /\ thr = "rows" /\ dueRows # <<>>
  /\ fired' = [fired EXCEPT ![Head(dueRows).id] = @ + 1]
  /\ marked' = marked \cup {Head(dueRows).id}
  /\ dueRows' = Tail(dueRows)
  /\ UNCHANGED <<loopVars, memVars, parseVars, envVars, execVars, storeVars, thr, stopFlag,
                 sweepNow, flips, faults>>

\* The rows of the store after UPDATE ... SET status='done' of the ids.
MarkDone(rows, ids) ==
  [i \in DOMAIN rows |->
     IF rows[i].id \in ids THEN [rows[i] EXCEPT !.status = "done"] ELSE rows[i]]

\* con.commit(); con.close()
SweepCommit ==
  /\ thr = "rows" /\ dueRows = <<>>
  /\ reminders' = MarkDone(reminders, marked)
  /\ flips' = [id \in DOMAIN flips |->
                IF \E i \in DOMAIN reminders :
                     /\ reminders[i].id = id /\ id \in marked
                     /\ reminders[i].status # "done"
                THEN flips[id] + 1 ELSE flips[id]]
  /\ marked' = {}
  /\ thr' = "sleep"
  /\ UNCHANGED <<loopVars, memVars, parseVars, envVars, execVars, now, stopFlag, sweepNow,
                 dueRows, fired, faults>>

\* A statement of the try block raises sqlite3.Error: connect or SELECT,
\* an UPDATE (its "Reminder due" line is already logged), or commit.  The
\* except clause passes, and the connection is dropped with its UPDATEs
\* uncommitted.
SweepFault ==
  /\ thr \in {"select", "rows"}
  /\ faults < MaxFaults
  /\ faults' = faults + 1
  /\ fired' = IF thr = "rows" /\ dueRows # <<>>
              THEN [fired EXCEPT ![Head(dueRows).id] = @ + 1] ELSE fired
  /\ marked' = {}
  /\ dueRows' = <<>>
  /\ thr' = "sleep"
  /\ UNCHANGED <<loopVars, memVars, parseVars, envVars, execVars, storeVars, stopFlag, sweepNow,
                 flips>>

\* time.sleep(1.0) returns
Wake ==
  /\ thr = "sleep"
  /\ thr' = "check"
  /\ UNCHANGED <<loopVars, memVars, parseVars, envVars, execVars, storeVars, stopFlag, sweepNow,
                 dueRows, marked, fired, flips, faults>>

NextSched ==
  \/ \E d \in ClockSteps : Tick(d)
  \/ \E t \in WhenValues, f \in BOOLEAN : ScheduleAt(t, f)
  \/ \E t \in TimeTexts, f \in BOOLEAN : ScheduleFromText(t, f)
  \/ Start
  \/ Stop
  \/ LoopCheck
  \/ ReadClock
  \/ SweepSelect
  \/ SweepRow
  \/ SweepCommit
  \/ SweepFault
  \/ Wake

SpecSched == InitSchedSpec /\ [][NextSched]_vars

\* ------------------------------------------------------------------------
\* Time parser specification: parse_natural_time applied to every text of
\* up to MaxWords time words, at every reference instant
\* ------------------------------------------------------------------------

\* The words the time expressions are built from: hour numerals (one that
\* is no clock hour, one with minutes, one whose minutes are no clock
\* minutes), am/pm markers apart and adjacent, the day keywords, alone and
\* before a part of the day, parts of the day, the generic marker "baje"
\* and a word that says nothing of time.
TimeWords ==
  << <<"8">>, <<"7">>, <<"1","2">>, <<"2","5">>,
     <<"8",":","3","0">>, <<"8",":","7","5">>,
     <<"7","p","m">>, <<"p","m">>, <<"a","m">>,
     <<"k","a","l">>, <<"a","a","j">>,
     <<"k","a","l"," ","s","u","b","a","h">>, <<"k","a","l"," ","r","a","a","t">>,
     <<"s","u","b","a","h">>, <<"r","a","a","t">>,
     <<"b","a","j","e">>, <<"m","e">> >>

\* The reference instants: 07:00, 08:00, 09:00 and 20:00 of day 1.
RefInstants ==
  {StartInstant, StartInstant + 60, StartInstant + 120, StartInstant + 13 * 60}

InitTime ==
  /\ heard = <<>> /\ nwords = 0 /\ parsed = NotParsed
  /\ InitEnv /\ InitExec
  /\ reminders = <<>> /\ now \in RefInstants
  /\ InitSched /\ InitMem /\ NoLoop

\* One more word of the time expression is heard.
HearTime(w) ==
  /\ nwords < MaxWords
  /\ heard' = IF nwords = 0 THEN w ELSE heard \o <<" ">> \o w
  /\ nwords' = nwords + 1
  /\ parsed' = NotParsed
  /\ UNCHANGED <<loopVars, memVars, envVars, execVars, storeVars, schedVars>>

\* parse_natural_time(heard, now) returns or raises.
ParseTime ==
  /\ parsed = NotParsed
  /\ parsed' = [when |-> parse_natural_time(heard, now)]
  /\ UNCHANGED <<loopVars, memVars, heard, nwords, envVars, execVars, storeVars, schedVars>>

NextTime ==
  \/ \E w \in Range(TimeWords) : HearTime(w)
  \/ ParseTime

SpecTime == InitTime /\ [][NextTime]_vars

\* ------------------------------------------------------------------------
\* Memory specification: two threads call the operations of the memory
\* store; each file access and each lock operation is a step
\* ------------------------------------------------------------------------

\* The number of operations called.
MaxMemOps == 3

\* The documents written, the keys and values updated, the nickname.
WriteDocs == { [k \in {"k"} |-> Str("v")], EmptyDoc }

UpdateArgs ==
  { <<"k1", Str("v1")>>, <<"k2", Str("v2")>>, <<"k1", Str("v2")>>,
    <<"k1", Raw>> }

NicknameArgs == { << <<"A","l","i">>, "123" >> }

InitMemSpec ==
  /\ heard = <<>> /\ nwords = 0 /\ parsed = NotParsed
  /\ InitEnv /\ InitExec /\ InitStore /\ InitSched /\ InitMem /\ NoLoop

notMemVars == <<parseVars, envVars, execVars, storeVars, schedVars, loopVars>>

\* What the operation of thread record r returned.
Returned(r) ==
  [op |-> r.op, doc |-> r.doc, ok |-> r.ok, seq |-> r.seq, conc |-> r.conc,
   ops |-> memOps]

\* The record of a thread that has just called operation op: it goes for
\* the lock when the operation takes it, and otherwise, or for write_memory
\* once it has the lock, straight to its first file access.
Called_op(op, inst, key, value, name, doc, n, conc) ==
  [pc |-> IF Locked(op) THEN "lock"
          ELSE IF op = "write" THEN "open" ELSE "load",
   op |-> op, inst |-> inst, key |-> key, value |-> value,
   name |-> name, doc |-> doc, ok |-> FALSE, seq |-> n, conc |-> conc]

\* Another thread is inside an operation.
Busy(t) == \E u \in MemThreads \ {t} : memThr[u].pc \notin {"idle", "done"}

\* Thread t is free to call an operation.
CanCall(t) == memThr[t].pc \in {"idle", "done"} /\ memOps < MaxMemOps

\* MemoryManager.read_memory()
ReadMemory(t, inst) ==
  /\ CanCall(t)
  /\ memOps' = memOps + 1
  /\ memThr' = [memThr EXCEPT ![t] =
       Called_op("read", inst, "", Str(""), <<>>, EmptyDoc, memOps + 1,
                 Busy(t))]
  /\ UNCHANGED <<memFile, memLock, memPrev, notMemVars>>

\* MemoryManager.write_memory(data)
WriteMemory(t, inst, data) ==
  /\ CanCall(t)
  /\ memOps' = memOps + 1
  /\ memThr' = [memThr EXCEPT ![t] =
       Called_op("write", inst, "", Str(""), <<>>, data, memOps + 1,
                 Busy(t))]
  /\ UNCHANGED <<memFile, memLock, memPrev, notMemVars>>

\* MemoryManager.update_memory(key, value)
UpdateMemory(t, inst, key, value) ==
  /\ CanCall(t)
  /\ memOps' = memOps + 1
  /\ memThr' = [memThr EXCEPT ![t] =
       Called_op("update", inst, key, value, <<>>, EmptyDoc, memOps + 1,
                 Busy(t))]
  /\ UNCHANGED <<memFile, memLock, memPrev, notMemVars>>

\* MemoryManager.get_memory_value(key, default)
GetMemoryValue(t, inst, key, default) ==
  /\ CanCall(t)
  /\ memOps' = memOps + 1
  /\ memThr' = [memThr EXCEPT ![t] =
       Called_op("get", inst, key, default, <<>>, EmptyDoc, memOps + 1,
                 Busy(t))]
  /\ UNCHANGED <<memFile, memLock, memPrev, notMemVars>>

\* memory_manager.remember_nickname(name, phone)
RememberNickname(t, name, phone) ==
  /\ CanCall(t)
  /\ memOps' = memOps + 1
  /\ memThr' = [memThr EXCEPT ![t] =
       Called_op("nickname", 1, "", Str(phone), name, EmptyDoc, memOps + 1,
                 Busy(t))]
  /\ UNCHANGED <<memFile, memLock, memPrev, notMemVars>>

\* with _memory_lock: the thread enters when no other thread holds it.
Acquire(t) ==
  /\ memThr[t].pc = "lock"
  /\ memLock = 0
  /\ memLock' = t
  /\ memThr' = [memThr EXCEPT ![t].pc =
                  IF memThr[t].op = "write" THEN "open" ELSE "load"]
  /\ UNCHANGED <<memFile, memPrev, memOps, notMemVars>>

\* load_m1() and what the operation does with the document in memory.
LoadStep(t) ==
  /\ memThr[t].pc = "load"
  /\ \E loaded \in {load_m1(memFile)} :
       \/ /\ memThr[t].op = "read"
          /\ memThr' = [memThr EXCEPT ![t].doc = loaded, ![t].ok = TRUE,
                                      ![t].pc = "unlock"]
          /\ UNCHANGED memPrev
       \/ /\ memThr[t].op = "get"
          /\ memThr' = [memThr EXCEPT
               ![t].value = IF memThr[t].key \in DOMAIN loaded
                            THEN loaded[memThr[t].key] ELSE memThr[t].value,
               ![t].doc = loaded, ![t].ok = TRUE, ![t].pc = "unlock"]
          /\ UNCHANGED memPrev
       \/ /\ memThr[t].op = "update"
          /\ memThr' = [memThr EXCEPT
               ![t].doc = DocSet(loaded, memThr[t].key, memThr[t].value),
               ![t].pc = "open"]
          /\ UNCHANGED memPrev
       \/ /\ memThr[t].op = "nickname"
          /\ NicknameSettable(loaded)
          /\ memThr' = [memThr EXCEPT
               ![t].doc = WithNickname(loaded, memThr[t].name, memThr[t].value.s),
               ![t].pc = "open"]
          /\ UNCHANGED memPrev
       \/ /\ memThr[t].op = "nickname"
          /\ ~NicknameSettable(loaded)
          /\ memThr' = [memThr EXCEPT ![t].doc = loaded, ![t].pc = "done"]
          /\ memPrev' = Returned([memThr[t] EXCEPT !.doc = loaded])
  /\ UNCHANGED <<memFile, memLock, memOps, notMemVars>>

\* save_m1: open(MEMORY_JSON, "w") empties the file.
OpenStep(t) ==
  /\ memThr[t].pc = "open"
  /\ memFile' = Truncated
  /\ memThr' = [memThr EXCEPT ![t].pc = "dump"]
  /\ UNCHANGED <<memLock, memPrev, memOps, notMemVars>>

\* save_m1: json.dump and close; True, or False when the dump raised.
\* remember_nickname returns here, the locked operations go on to init_m2
\* and the release of the lock.
DumpStep(t) ==
  /\ memThr[t].pc = "dump"
  /\ memFile' = json_dump(memThr[t].doc)
  /\ memThr' = [memThr EXCEPT ![t].ok = Serialisable(memThr[t].doc),
                              ![t].pc = IF Locked(memThr[t].op) THEN "unlock"
                                        ELSE "done"]
  /\ memPrev' = IF Locked(memThr[t].op) THEN memPrev
                ELSE Returned([memThr[t] EXCEPT
                                 !.ok = Serialisable(memThr[t].doc)])
  /\ UNCHANGED <<memLock, memOps, notMemVars>>

\* The end of "with _memory_lock": the operation returns.
Release(t) ==
  /\ memThr[t].pc = "unlock"
  /\ memLock' = 0
  /\ memThr' = [memThr EXCEPT ![t].pc = "done"]
  /\ memPrev' = Returned(memThr[t])
  /\ UNCHANGED <<memFile, memOps, notMemVars>>

NextMem ==
  \/ \E t \in MemThreads : ReadMemory(t, 1)
  \/ \E t \in MemThreads, data \in WriteDocs : WriteMemory(t, 1, data)
  \/ \E t \in MemThreads, inst \in MemInstances, a \in UpdateArgs :
        UpdateMemory(t, inst, a[1], a[2])
  \/ \E t \in MemThreads : GetMemoryValue(t, 1, "k1", Str("d"))
  \/ \E t \in MemThreads, a \in NicknameArgs : RememberNickname(t, a[1], a[2])
  \/ \E t \in MemThreads : Acquire(t)
  \/ \E t \in MemThreads : LoadStep(t)
  \/ \E t \in MemThreads : OpenStep(t)
  \/ \E t \in MemThreads : DumpStep(t)
  \/ \E t \in MemThreads : Release(t)

SpecMem == InitMemSpec /\ [][NextMem]_vars

\* ------------------------------------------------------------------------
\* Loop specification: one background loop of one of the four classes;
\* start() and stop() are called at any time while the loop thread runs
\* one statement at a time
\* ------------------------------------------------------------------------

\* The number of heard texts counted.
MaxHandled == 2

InitLoopSpec ==
  /\ heard = <<>> /\ nwords = 0 /\ parsed = NotParsed
  /\ InitEnv /\ InitExec /\ InitStore /\ InitSched /\ InitMem
  /\ loopKind \in LoopKinds
  /\ InitLoop

notLoopVars ==
  <<parseVars, envVars, execVars, storeVars, schedVars, memVars, loopKind>>

\* start(): nothing when the thread is alive; else the stop flag is cleared
\* and a thread is started.
StartLoop ==
  /\ loopWanted' = TRUE
  /\ IF Alive(loopPc)
     THEN UNCHANGED <<loopPc, loopStop>>
     ELSE loopStop' = FALSE /\ loopPc' = "check"
  /\ UNCHANGED <<loopLast, loopHandled, notLoopVars>>

\* stop(): the flag is set (CommsAI also joins the thread for at most one
\* second).
StopLoop ==
  /\ loopStop' = TRUE
  /\ loopWanted' = FALSE
  /\ UNCHANGED <<loopPc, loopLast, loopHandled, notLoopVars>>

\* The loop condition is evaluated.
TestFlag ==
  /\ loopPc = "check"
  /\ loopPc' = AfterTest(loopKind, loopStop)
  /\ UNCHANGED <<loopStop, loopWanted, loopLast, loopHandled, notLoopVars>>

\* Scheduler._run: one sweep, which commits or raises inside the try.
SweepPass(result) ==
  /\ loopKind = "Scheduler" /\ loopPc = "body"
  /\ loopPc' = AfterBody(loopKind, result)
  /\ loopLast' = result
  /\ UNCHANGED <<loopStop, loopWanted, loopHandled, notLoopVars>>

\* stt.listen_once(): a text, or None after the timeout or an error.
ListenOnce(text) ==
  /\ loopKind \in ListenKinds /\ loopPc = "body"
  /\ IF text
     THEN loopPc' = "handle" /\ UNCHANGED loopLast
     ELSE loopPc' = AfterBody(loopKind, "silence") /\ loopLast' = "silence"
  /\ UNCHANGED <<loopStop, loopWanted, loopHandled, notLoopVars>>

\* The heard text is handled: self.callback(text) of BackgroundListener,
\* _process_command(text) and the spoken feedback of CommsAI.
HandleText(result) ==
  /\ loopKind \in ListenKinds /\ loopPc = "handle"
  /\ result \in HandleResults(loopKind)
  /\ loopPc' = AfterBody(loopKind, result)
  /\ loopLast' = result
  /\ loopHandled' = IF loopHandled < MaxHandled THEN loopHandled + 1
                    ELSE loopHandled
  /\ UNCHANGED <<loopStop, loopWanted, notLoopVars>>

\* time.sleep(...) returns.
SleepEnds ==
  /\ loopPc = "sleep"
  /\ loopPc' = "check"
  /\ UNCHANGED <<loopStop, loopWanted, loopLast, loopHandled, notLoopVars>>

\* The steps of the loop thread.
LoopThread ==
  \/ TestFlag
  \/ \E r \in {"ok", "raised"} : SweepPass(r)
  \/ \E text \in BOOLEAN : ListenOnce(text)
  \/ \E r \in {"ok", "failed", "raised"} : HandleText(r)
  \/ SleepEnds

NextLoop ==
  \/ StartLoop
  \/ StopLoop
  \/ TestFlag
  \/ \E r \in {"ok", "raised"} : SweepPass(r)
  \/ \E text \in BOOLEAN : ListenOnce(text)
  \/ \E r \in {"ok", "failed", "raised"} : HandleText(r)
  \/ SleepEnds

SpecLoop == InitLoopSpec /\ [][NextLoop]_vars

\* The loop thread is scheduled: a statement it can execute is executed.
SpecLoopFair == SpecLoop /\ WF_vars(LoopThread)

\* ------------------------------------------------------------------------
\* Properties of the safety gate and the executor (SpecExec)
\* ------------------------------------------------------------------------

\* Simulation mode is on: SIMULATION_MODE is unset or holds a truthy text.
SimulationOn ==
  simEnv \in {NoneText, <<" ","Y","e","s"," ">>, <<"t","r","u","e">>}

\* SIMULATION_MODE is set, to a truthy text.
SimulationSet ==
  simEnv \in {<<" ","Y","e","s"," ">>, <<"t","r","u","e">>}

\* CONFIRM holds a truthy text.
ConfirmGiven == confirmEnv = <<" ","O","K"," ">>

\* C1: whenever simulation mode is on, require_confirmation returns false,
\* for every description and every value of CONFIRM: the direct call
\* returns false and every gate call made by a handler is refused.
C1_SimulationOverridesConfirmation ==
  SimulationOn =>
    /\ outcome.op = "require_confirmation" => outcome.result = FALSE
    /\ \A g \in outcome.gate : g[2] = "refused"

\* require_confirmation was called with simulation on and CONFIRM given,
\* and returned false.
C1_Witness ==
  /\ SimulationOn /\ ConfirmGiven
  /\ outcome.op = "require_confirmation"
  /\ outcome.result = FALSE
  /\ outcome.gate = {<<"delete", "refused">>}

\* C2: require_confirmation returns true if and only if simulation is off
\* and confirmation is given; with simulation off it returns false when
\* CONFIRM is unset or falsy and true when CONFIRM is set.
C2_TrueIffLiveAndConfirmed ==
  outcome.op = "require_confirmation" =>
    (outcome.result = TRUE <=> (~SimulationOn /\ ConfirmGiven))

\* require_confirmation was called with simulation off and CONFIRM given,
\* and returned true.
C2_Witness ==
  /\ ~SimulationOn /\ ConfirmGiven
  /\ outcome.op = "require_confirmation"
  /\ outcome.result = TRUE

\* The handlers whose success means an effect on the machine.
EffectHandlers ==
  {"whatsapp", "open_app", "close_app", "search_web", "shutdown", "restart",
   "sleep", "lock", "screenshot"}

\* What a call of execute_command that ran in simulation mode did: no real
\* effect, and a success of an effect handler is a logged line.
SimulatedOnly(o) ==
  /\ o.fx = {}
  /\ (/\ ~o.raised
      /\ "handler" \in DOMAIN o.result
      /\ o.result.handler \in EffectHandlers
      /\ o.result.ok = TRUE) => o.log # {}

\* C3: while SIMULATION_MODE is true, no call of execute_command performs a
\* real side effect, whatever the text and CONFIRM: a call made with the
\* variable set to a truthy text leaves it as it is, and a call whose
\* handlers ran in simulation mode spawned, terminated, deleted and wrote
\* nothing, its actions being log lines.
C3_SimulationHasNoRealEffect ==
  [][outcome'.op = "execute_command" =>
       /\ SimulationSet => simEnv' = simEnv
       /\ (SimulationSet \/ SimulationOn') => SimulatedOnly(outcome')]_vars

\* "lock" was executed in simulation mode with CONFIRM given: it succeeded
\* with a log line and no effect.
C3_Witness ==
  /\ SimulationOn /\ ConfirmGiven
  /\ outcome.op = "execute_command"
  /\ request = <<"l","o","c","k">>
  /\ outcome.result = [ok |-> TRUE, handler |-> "lock"]
  /\ outcome.log = {<<"[SIMULATION] Would run", "LockWorkStation">>}
  /\ outcome.fx = {}

\* The effects of the operations the gate is for: process termination,
\* shutdown, restart, sleep, lock, deletion, WhatsApp text and media send.
GatedEffects ==
  { <<"terminate", "pid">>, <<"terminate", "processes">>,
    <<"spawn", "shutdown /s">>, <<"spawn", "shutdown /r">>,
    <<"spawn", "SetSuspendState">>, <<"spawn", "LockWorkStation">>,
    <<"delete", "path">>, <<"send", "text">>, <<"send", "media">> }

\* C4: a destructive operation takes effect only after require_confirmation
\* returned true for it, and with CONFIRM unset none takes effect, whatever
\* the arguments.  (Violated: lock, send_media, and delete_path of at most
\* confirm_threshold items never call the gate.)
C4_EffectsOnlyAfterConfirmation ==
  /\ outcome.fx \cap GatedEffects # {} =>
       \E g \in outcome.gate : g[2] = "granted"
  /\ confirmEnv = NoneText => outcome.fx \cap GatedEffects = {}

\* C5: execute_command always returns a record with a boolean `ok` and a
\* string `handler`.  (Violated: the optimize rule returns the record of
\* dev_api, which has no `handler`; a failing load_settings returns nothing.)
C5_ResultHasOkAndHandler ==
  outcome.op = "execute_command" =>
    /\ ~outcome.raised
    /\ "ok" \in DOMAIN outcome.result
    /\ outcome.result.ok \in BOOLEAN
    /\ "handler" \in DOMAIN outcome.result
    /\ outcome.result.handler \in STRING

\* SIMILARITY_THRESHOLD holds a text float() rejects.
BadThreshold == thresholdEnv = <<"a","b","c">>

\* C6: an exception of a collaborator, in the handler or in the settings
\* load, becomes the result {ok: false, handler: "error"}; execute_command
\* never raises.  (Violated: load_settings is called outside the try block.)
C6_ExceptionsBecomeErrorResults ==
  outcome.op = "execute_command" =>
    /\ ~outcome.raised
    /\ (outcome.caught \/ BadThreshold) =>
          /\ outcome.result.ok = FALSE
          /\ outcome.result.handler = "error"

\* The intent tags parse_intent produces for which the executor has a rule.
RoutedIntents ==
  {"send_whatsapp", "open_app", "close_app", "search_web", "system_action",
   "optimize_system", "screenshot", "schedule", "error_analysis"}

\* C7: in every result of execute_command, handler "unknown" with ok false
\* occurs exactly when the parsed intent matched no routing rule, a matched
\* rule yields its own handler name, and handler "error" with ok false
\* occurs exactly when a handler raised.  (Violated by the optimize rule,
\* whose result carries no handler name.)
C7_UnknownAndErrorExactly ==
  (outcome.op = "execute_command" /\ ~outcome.raised) =>
    LET matched == parse_intent(request).intent \in RoutedIntents
        res == outcome.result
    IN  /\ "handler" \in DOMAIN res
        /\ (res.handler = "unknown" /\ res.ok = FALSE) <=> ~matched
        /\ (res.handler = "error" /\ res.ok = FALSE) <=> outcome.caught
        /\ (matched /\ ~outcome.caught) => res.handler \notin {"unknown", "error"}

\* ------------------------------------------------------------------------
\* Properties of the intent parser (SpecParse)
\* ------------------------------------------------------------------------

\* The closed set of intents.
ClosedIntents ==
  {"send_whatsapp", "open_app", "close_app", "search_web", "system_action",
   "file_action", "optimize_system", "schedule", "error_analysis",
   "screenshot", "unknown"}

\* Words of the vocabulary that are keywords of no rule.
NeutralWords ==
  { <<>>, <<"w","e","b">>, <<"k","a","r","o">>, <<"A","l","i">>,
    <<"k","o"," ","z","a","i","d",".">>, <<"\"","h","i","\"">>,
    <<"c","h","r","o","m","e">>, <<"d","o","n">>,
    <<"h","e","y"," ","d","o","n",",">>, <<"v","s"," ","c","o","d","e">> }

\* The texts made of neutral words only.
NeutralTexts ==
  UNION {{Join(ws) : ws \in [1..n -> NeutralWords]} : n \in 0..MaxWords}

\* C8: for every text, None and blank texts included, parse_intent returns
\* a record whose intent is in the closed set, and a text that matches no
\* rule gets "unknown".
C8_IntentInClosedSet ==
  parsed # NotParsed =>
    /\ parsed.intent \in ClosedIntents
    /\ (heard = NoneText \/ heard \in NeutralTexts) => parsed.intent = "unknown"

\* A text of blanks only was parsed, to "unknown".
C8_Witness ==
  /\ heard = <<" ">>
  /\ parsed # NotParsed
  /\ parsed.intent = "unknown"

\* The categories in cascade order, and whether the keywords of the k-th
\* one occur in the normalised text.
CascadeOrder ==
  << "send_whatsapp", "schedule", "error_analysis", "system_action",
     "open_app", "close_app", "search_web", "file_action",
     "optimize_system", "screenshot" >>

CategoryMatches(k, lower) ==
  CASE k = 1 -> IsSendText(lower)
    [] k = 2 -> IsScheduleText(lower)
    [] k = 3 -> HasWord(lower, <<"e","r","r","o","r">>)
    [] k = 4 -> \/ ContainsAny(lower, ShutdownWords)
                \/ ContainsAny(lower, RestartWords)
                \/ Contains(lower, <<"s","l","e","e","p">>)
                \/ Contains(lower, <<"l","o","c","k">>)
    [] k = 5 -> ContainsAny(lower, OpenWords)
    [] k = 6 -> ContainsAny(lower, CloseWords)
    [] k = 7 -> ContainsAny(lower, SearchWords)
    [] k = 8 -> ContainsAny(lower, FileWords)
    [] k = 9 -> IsOptimizeText(lower)
    [] k = 10 -> IsScreenshotText(lower)

\* The categories the text heard matches, as indices of CascadeOrder.
MatchedCategories ==
  {k \in DOMAIN CascadeOrder : CategoryMatches(k, Normalize(OrEmpty(heard)))}

\* C9 as stated: a text that matches several categories gets the earliest
\* of them in cascade order.  (Violated: search keywords replace open_app.)
C9_EarliestCategoryWins ==
  (parsed # NotParsed /\ MatchedCategories # {}) =>
    parsed.intent = CascadeOrder[Min(MatchedCategories)]

\* C9, corrected: a text that matches several categories gets the earliest
\* of them in cascade order, except that a text whose earliest category is
\* open app and which also holds a search keyword gets search_web; no other
\* later category replaces an earlier one.
C9_EarliestWinsButSearchOverOpen ==
  (parsed # NotParsed /\ MatchedCategories # {}) =>
    parsed.intent =
      IF Min(MatchedCategories) = 5 /\ 7 \in MatchedCategories
      THEN "search_web"
      ELSE CascadeOrder[Min(MatchedCategories)]

\* A text with an open keyword and a search keyword was parsed, to
\* search_web.
C9_Witness ==
  /\ heard = <<"k","h","o","l","o"," ","s","e","a","r","c","h">>
  /\ MatchedCategories = {5, 7}
  /\ parsed # NotParsed
  /\ parsed.intent = "search_web"

\* ------------------------------------------------------------------------
\* Properties of the scheduler (SpecSched)
\* ------------------------------------------------------------------------

\* C10: between sweeps, a reminder that is done had its notification fired
\* once and its status changed once, and a pending one had neither.
\* (Violated: a sweep whose UPDATE or commit fails has logged "Reminder
\* due" and leaves the reminder pending; the next sweep logs it again.)
C10_FiredAndFlippedExactlyOnce ==
  thr # "rows" =>
    \A i \in DOMAIN reminders :
      LET r == reminders[i]
          n == IF r.status = "done" THEN 1 ELSE 0
      IN  fired[r.id] = n /\ flips[r.id] = n

\* One step of the reminder store: rows are kept, in place and with their
\* ids; a row that is done stays done; every status is pending or done; a
\* new row is pending; ids increase in insertion order.
StoreStep ==
  /\ Len(reminders') >= Len(reminders)
  /\ \A i \in DOMAIN reminders :
        /\ reminders'[i].id = reminders[i].id
        /\ reminders[i].status = "done" => reminders'[i].status = "done"
  /\ \A i \in DOMAIN reminders' : reminders'[i].status \in {"pending", "done"}
  /\ \A i \in DOMAIN reminders' \ DOMAIN reminders :
        reminders'[i].status = "pending"
  /\ \A i, j \in DOMAIN reminders' : i < j => reminders'[i].id < reminders'[j].id

\* C11: every reminder is pending or done; it is created pending, a done
\* reminder never returns to pending, no row is ever deleted, and ids are
\* assigned in strictly increasing order of insertion.
C11_ReminderLifecycle == [][StoreStep]_vars

\* The store holds a reminder the sweep has moved to done and a later one,
\* with a larger id, that is still pending.
C11_Witness ==
  \E i, j \in DOMAIN reminders :
     /\ i < j
     /\ reminders[i].status = "done" /\ flips[reminders[i].id] = 1
     /\ reminders[j].status = "pending"
     /\ reminders[i].id < reminders[j].id

\* The step is a call of schedule_from_text.
IsScheduleFromText == \E t \in TimeTexts, f \in BOOLEAN : ScheduleFromText(t, f)

\* The time expression of the text of the call could not be resolved: the
\* parser returned None or raised.
Unresolved(txt, t) == parse_natural_time(txt, t) \in {NoneTime, RaisedTime}

\* C12: when the time expression of the text cannot be resolved,
\* schedule_from_text returns false and leaves the stored reminders as they
\* are; it inserts a row only with a resolved timestamp, and then exactly
\* one pending row with that timestamp.
C12_NoInsertWithoutTime ==
  [][IsScheduleFromText =>
       /\ Unresolved(request', now) =>
             outcome'.result = FALSE /\ reminders' = reminders
       /\ reminders' # reminders =>
             /\ ~Unresolved(request', now)
             /\ outcome'.result = TRUE
             /\ reminders' = Append(reminders,
                   [id |-> Len(reminders) + 1,
                    when_ts |-> parse_natural_time(request', now),
                    title |-> "Reminder", status |-> "pending"])]_vars

\* schedule_from_text was called with a text whose hour is no clock value,
\* after a reminder had been stored: it returned false and the store still
\* holds that one reminder.
C12_Witness ==
  /\ outcome.op = "schedule_from_text"
  /\ request = <<"2","5"," ","b","a","j","e">>
  /\ outcome.result = FALSE
  /\ Len(reminders) = 1

\* ------------------------------------------------------------------------
\* Properties of the time parser (SpecTime)
\* ------------------------------------------------------------------------

\* parse_natural_time has been applied to the text heard.
TimeParsed == "when" \in DOMAIN parsed

\* The text heard, lower-cased, and the first numeral in it.
SaidText == Lower(heard)

SaidNumeral == FirstNumeral(SaidText)

\* The text holds a numeral that is a clock time.
SaysClockTime ==
  SaidNumeral.found /\ SaidNumeral.hour <= 23 /\ SaidNumeral.minute <= 59

\* The day keywords ("kal", "aaj") and an am/pm marker occur in the text.
SaysTomorrow == HasWord(SaidText, <<"k","a","l">>)

SaysToday == HasWord(SaidText, <<"a","a","j">>)

SaysAmPm == Contains(SaidText, <<"a","m">>) \/ Contains(SaidText, <<"p","m">>)

\* Midnight at the start of the date of instant t.
DayStart(t) == (t \div MinutesPerDay) * MinutesPerDay

\* The instant hour h, minute m on the date of instant t.
ClockOn(t, h, m) == DayStart(t) + h * 60 + m

\* C13: a text with an hour numeral and no day keyword resolves to that
\* hour on the date of now when now is strictly before it, and to that hour
\* on the following date when now is at or after it; with the tomorrow
\* keyword the result is that hour on the day after now, never rolled
\* further.
C13_RolloverWhenNotAfterNow ==
  (TimeParsed /\ SaysClockTime /\ ~SaysAmPm /\ ~SaysToday) =>
    LET t == ClockOn(now, SaidNumeral.hour, SaidNumeral.minute)
    IN  parsed.when = IF SaysTomorrow THEN t + MinutesPerDay
                      ELSE IF now < t THEN t
                      ELSE t + MinutesPerDay

\* "8 baje" was parsed at 08:00 exactly: the result is 08:00 of the next
\* day.
C13_Witness ==
  /\ TimeParsed
  /\ heard = <<"8"," ","b","a","j","e">>
  /\ now = StartInstant + 60
  /\ parsed.when = StartInstant + 60 + MinutesPerDay

\* C14: when the text says "aaj" and the resolved time has already passed,
\* the result stays on the date of now: a text with the today keyword and
\* an hour numeral resolves to that hour on the date of now, before or
\* after now.  (Violated: the rollover tests only for "kal", so "aaj 8" at
\* 09:00 resolves to 08:00 of the next day.)
C14_ExplicitTodayNotRolled ==
  (TimeParsed /\ SaysClockTime /\ ~SaysAmPm /\ SaysToday /\ ~SaysTomorrow) =>
    parsed.when = ClockOn(now, SaidNumeral.hour, SaidNumeral.minute)

\* C15: at every reference instant a text with the tomorrow keyword and an
\* hour numeral resolves to that hour on the day after the date of now: the
\* numeral takes precedence over a part-of-day default and exactly one day
\* is added.
C15_TomorrowAtNumeral ==
  (TimeParsed /\ SaysTomorrow /\ SaysClockTime /\ ~SaysAmPm) =>
    parsed.when =
      ClockOn(now, SaidNumeral.hour, SaidNumeral.minute) + MinutesPerDay

\* "kal raat 8" was parsed at 09:00: the result is 08:00 of the next day,
\* not the 21:00 of "raat".
C15_Witness ==
  /\ TimeParsed
  /\ heard = <<"k","a","l"," ","r","a","a","t"," ","8">>
  /\ now = StartInstant + 120
  /\ parsed.when = DayStart(now) + MinutesPerDay + 8 * 60

\* Index after the digits (and minutes) of the numeral matched at index i.
NumeralEnd(s, i) ==
  LET p == IF IsDigitAt(s, i + 1) THEN i + 2 ELSE i + 1
      q == SkipSpaces(s, p)
      e == IF IsDigitAt(s, q + 2) THEN q + 3 ELSE q + 2
  IN  IF q <= Len(s) /\ s[q] \in {":", "."} /\ IsDigitAt(s, q + 1)
         /\ NumeralEndOK(s, e)
      THEN e ELSE p

\* The marker that follows the first numeral of the text, adjacent to it or
\* after white space: "pm", "am" or "none".
MarkerAfterNumeral ==
  LET s == SaidText
      r == SkipSpaces(s, NumeralEnd(s, First({j \in 1..Len(s) : NumeralAt(s, j).found})))
  IN  IF ~SaidNumeral.found THEN "none"
      ELSE IF MatchAt(s, r, <<"p","m">>) /\ WordBoundary(s, r + 2) THEN "pm"
      ELSE IF MatchAt(s, r, <<"a","m">>) /\ WordBoundary(s, r + 2) THEN "am"
      ELSE "none"

\* The hour of the day of instant t.
HourOf(t) == (t % MinutesPerDay) \div 60

\* C16: an hour numeral H < 12 followed by a pm marker, adjacent ("7pm") or
\* apart ("7 pm"), resolves to hour H + 12; the numeral 12 followed by an am
\* marker resolves to hour 0; without an am/pm marker the hour is H.
\* (Violated: the marker is looked for as a word of its own, so the
\* adjacent forms "7pm" and "12am" are not adjusted.)
C16_AmPmAdjustsHour ==
  (TimeParsed /\ SaysClockTime) =>
    /\ (MarkerAfterNumeral = "pm" /\ SaidNumeral.hour < 12) =>
          HourOf(parsed.when) = SaidNumeral.hour + 12
    /\ (MarkerAfterNumeral = "am" /\ SaidNumeral.hour = 12) =>
          HourOf(parsed.when) = 0
    /\ ~SaysAmPm => HourOf(parsed.when) = SaidNumeral.hour

\* The text holds a part of the day or the generic marker "baje".
SaysPartOrMarker ==
  \/ \E k \in DOMAIN PARTS : Contains(SaidText, PARTS[k].part)
  \/ Contains(SaidText, <<"b","a","j","e">>)

\* C17: for every text and reference instant parse_natural_time returns a
\* timestamp or None and never raises, also when the first numeral is no
\* clock value; None is returned exactly when the text holds no numeral, no
\* part of the day and no generic marker.  (Violated: day.replace raises
\* ValueError for an hour above 23 or a minute above 59.)
C17_TimestampOrNoneNeverRaises ==
  TimeParsed =>
    /\ parsed.when # RaisedTime
    /\ parsed.when = NoneTime <=> (~SaidNumeral.found /\ ~SaysPartOrMarker)


\* ------------------------------------------------------------------------
\* Properties of the memory store (SpecMem)
\* ------------------------------------------------------------------------

\* The document in the file.
StoredDocument ==
  IF memFile.exists /\ memFile.complete THEN json_load(memFile.pairs)
  ELSE EmptyDoc

\* Thread t is at rest.
AtRest(t) == memThr[t].pc \in {"idle", "done"}

\* Thread t has read the document inside read_memory and is about to
\* return it; the last operation to return before was a write_memory that
\* returned True and ran with no other operation in progress, read_memory
\* was called after it, and no other operation was called or is in progress
\* since.
ReadsAfterWrite(t) ==
  /\ memThr[t].op = "read" /\ memThr[t].pc = "unlock"
  /\ memPrev.op = "write" /\ memPrev.ok
  /\ ~memPrev.conc /\ memPrev.seq = memPrev.ops
  /\ memPrev.ops + 1 = memOps /\ memThr[t].seq = memOps
  /\ \A u \in MemThreads \ {t} : AtRest(u)

\* C18: write(D) returning true, followed by read() with no store
\* operation in between, returns exactly D: the file is overwritten, the
\* previous document is not merged in and no default key is added.
C18_WriteThenReadReturnsDocument ==
  \A t \in MemThreads : ReadsAfterWrite(t) => memThr[t].doc = memPrev.doc

\* read() returns {"k": "v"} after write({"k": "v"}), the third operation
\* on the store.
C18_Witness ==
  \E t \in MemThreads :
    /\ ReadsAfterWrite(t)
    /\ memOps = 3
    /\ memPrev.doc = [k \in {"k"} |-> Str("v")]
    /\ memThr[t].doc = [k \in {"k"} |-> Str("v")]

\* Thread t is between the first and the last file access of a store
\* operation of MemoryManager.
InStoreOperation(t) ==
  /\ memThr[t].op \in {"read", "write", "update", "get"}
  /\ memThr[t].pc \in {"load", "open", "dump", "unlock"}

\* The two threads have each completed op1 and op2 with success, these are
\* the last two operations called on the store, and no operation was in
\* progress when the first of them was called.
LastTwoCompleted(t, u, op1, op2) ==
  /\ t # u
  /\ memThr[t].op = op1 /\ memThr[u].op = op2
  /\ memThr[t].pc = "done" /\ memThr[u].pc = "done"
  /\ memThr[t].ok /\ memThr[u].ok
  /\ {memThr[t].seq, memThr[u].seq} = {memOps - 1, memOps}
  /\ \A w \in {t, u} : memThr[w].seq = memOps - 1 => ~memThr[w].conc

\* The stored document has value v under key k.
Stored(k, v) == k \in DOMAIN StoredDocument /\ StoredDocument[k] = v

\* C19: the file accesses of a MemoryManager operation are never
\* interleaved with those of another one, and when two threads have called
\* update(k1, v1) and update(k2, v2) with different keys, on the same or on
\* different instances, the document holds both k1 = v1 and k2 = v2.
C19_NoLostUpdate ==
  /\ \A t, u \in MemThreads :
        (t # u) => ~(InStoreOperation(t) /\ InStoreOperation(u))
  /\ \A t, u \in MemThreads :
        (LastTwoCompleted(t, u, "update", "update")
         /\ memThr[t].key # memThr[u].key)
        => /\ Stored(memThr[t].key, memThr[t].value)
           /\ Stored(memThr[u].key, memThr[u].value)

\* Two updates of different keys through different instances, the second
\* called while the first was in progress, have both completed and both
\* keys are stored.
C19_Witness ==
  \E t, u \in MemThreads :
    /\ LastTwoCompleted(t, u, "update", "update")
    /\ memThr[t].key # memThr[u].key
    /\ memThr[t].inst # memThr[u].inst
    /\ memThr[u].seq = memOps /\ memThr[u].conc
    /\ Stored(memThr[t].key, memThr[t].value)
    /\ Stored(memThr[u].key, memThr[u].value)

\* C20: remember_nickname is guarded by the same lock as the operations of
\* MemoryManager: when remember_nickname(name, phone) and update(key, value)
\* have run concurrently, the document holds both the nickname and the key.
\* (Violated: remember_nickname loads and saves without _memory_lock.)
C20_NicknameAndUpdateBothKept ==
  \A t, u \in MemThreads :
    LastTwoCompleted(t, u, "nickname", "update")
    => /\ Stored(memThr[u].key, memThr[u].value)
       /\ Lower(memThr[t].name) \in DOMAIN Nicknames(StoredDocument)
       /\ Nicknames(StoredDocument)[Lower(memThr[t].name)] = memThr[t].value.s

\* ------------------------------------------------------------------------
\* Properties of the WhatsApp automation (SpecExec)
\* ------------------------------------------------------------------------

\* C21: with SIMULATION_MODE set to true, send_text returns True for every
\* contact, message and channel preference, as a simulated send that is
\* logged and really sends nothing, and so dev_api.send_whatsapp_message
\* returns ok = True.  (Violated: send_text asks require_confirmation for
\* the preview first, which refuses in simulation mode.)
C21_SimulatedSendReturnsTrue ==
  (/\ SimulationSet
   /\ outcome.op \in {"send_text", "send_whatsapp_message"}
   /\ ~outcome.raised)
  => /\ outcome.result = TRUE
     /\ outcome.fx = {}
     /\ <<"[SIMULATION] Would send", "text">> \in outcome.log

\* ------------------------------------------------------------------------
\* Properties of the background loops (SpecLoop, SpecLoopFair)
\* ------------------------------------------------------------------------

\* The loop has just handled a heard text that failed: the callback or the
\* command processing raised, or the command reported failure.
HandlingFailed ==
  /\ loopKind \in ListenKinds
  /\ loopLast \in {"raised", "failed"}
  /\ loopPc = "sleep"

\* C22: a failure while handling one heard command never terminates the
\* background listen loop: the loop thread ends only when stop has been
\* requested, and after a failed command the loop listens for the next
\* input unless stop is requested.
C22_FailureDoesNotEndLoop ==
  /\ []((loopKind \in ListenKinds /\ loopPc = "dead") => loopStop)
  /\ (HandlingFailed ~> (loopPc = "body" \/ loopStop))

\* BackgroundListener handles a second text after the callback raised on
\* the first one, stop not being requested.
C22_Witness ==
  /\ loopKind = "BackgroundListener"
  /\ loopLast = "raised" /\ loopHandled = 1
  /\ loopPc = "handle"
  /\ ~loopStop

\* C23: after stop() on a running loop, and without another start(), the
\* loop thread eventually terminates; once the flag is set the thread begins
\* no iteration after the one in progress.
C23_StopEndsLoop ==
  /\ [][(loopStop /\ loopPc = "check") => loopPc' \in {"check", "dead"}]_vars
  /\ ((loopStop /\ ~loopWanted) ~> (~Alive(loopPc) \/ loopWanted))

\* The Scheduler loop was stopped during a sweep, completed it, and its
\* thread has returned.
C23_Witness ==
  /\ loopKind = "Scheduler"
  /\ loopStop /\ ~loopWanted
  /\ loopLast = "ok"
  /\ loopPc = "dead"

\* C26: after start() has returned and until the next stop(), a loop thread
\* is running and is not about to stop, also when start() follows stop()
\* before the previous thread has seen the flag.  (Violated: start()
\* returns at once when the old thread is still alive and leaves the stop
\* flag set, so that thread ends and no loop runs.)
C26_StartedLoopKeepsRunning ==
  (loopKind \in {"Scheduler", "BackgroundListener"} /\ loopWanted)
  => (Alive(loopPc) /\ ~loopStop)


\* The ids of a sequence of reminder rows.
IdsOf(rows) == { rows[i].id : i \in DOMAIN rows }

\* The ids of the rows of the store that are pending with when_ts <= t.
PendingDueAt(t) ==
  { reminders[i].id : i \in { j \in DOMAIN reminders :
       reminders[j].status = "pending" /\ reminders[j].when_ts <= t } }

\* The ids whose status changes to done in a step.
MarkedDoneInStep ==
  { reminders[i].id : i \in { j \in DOMAIN reminders :
       reminders[j].status # "done" /\ reminders'[j].status = "done" } }

\* One step seen from the sweep: the query selects the rows pending and due
\* at the sweep's instant; during its for loop the sweep works on the rows
\* it selected and no others; a step changes statuses to done only as the
\* commit of a sweep, for exactly the selected rows; no row of the store is
\* dropped or changed otherwise.
SweepStep ==
  /\ (thr = "select" /\ thr' = "rows")
        => IdsOf(dueRows') = PendingDueAt(sweepNow)
  /\ (thr = "rows" /\ thr' = "rows")
        => marked' \cup IdsOf(dueRows') = marked \cup IdsOf(dueRows)
  /\ Len(reminders') >= Len(reminders)
  /\ \A i \in DOMAIN reminders :
        /\ reminders'[i].id = reminders[i].id
        /\ reminders'[i].when_ts = reminders[i].when_ts
  /\ MarkedDoneInStep # {}
        => /\ thr = "rows" /\ dueRows = <<>>
           /\ MarkedDoneInStep = marked

\* C24: a sweep taken at instant `now` marks done exactly the reminders that
\* were pending with when_ts <= now when it queried the store; no reminder
\* is marked done before its when_ts; a reminder inserted by schedule()
\* while the sweep runs stays in the store and is not marked done unless
\* the sweep selected it.
C24_SweepMarksExactlyDue ==
  /\ [][SweepStep]_vars
  /\ [](\A i \in DOMAIN reminders :
          reminders[i].status = "done" => reminders[i].when_ts <= now)
  /\ [](thr = "rows" =>
          /\ sweepNow <= now
          /\ marked \cup IdsOf(dueRows) \subseteq PendingDueAt(sweepNow))

\* A sweep has marked the reminder it selected, and a second reminder,
\* inserted after the query with a time already due, is in the store and was
\* not selected.
C24_Witness ==
  /\ thr = "rows" /\ dueRows = <<>> /\ marked = {1}
  /\ Len(reminders) = 2
  /\ reminders[2].status = "pending" /\ reminders[2].when_ts <= sweepNow


\* ------------------------------------------------------------------------
\* Properties of the settings loader (SpecExec)
\* ------------------------------------------------------------------------

\* C25: loading settings never changes the safety flags: is_simulation_mode()
\* and is_confirmed() return after load_settings(), and after an
\* execute_command call, what they returned before it.  (Violated: with
\* SIMULATION_MODE unset and "simulate": false in the settings file,
\* load_settings writes SIMULATION_MODE=false, and simulation mode, on by
\* default before the call, is off after it.)
C25_LoadSettingsKeepsSafetyFlags ==
  [][outcome'.op \in {"load_settings", "execute_command"} =>
       /\ is_simulation_mode(simEnv') = is_simulation_mode(simEnv)
       /\ is_confirmed(confirmEnv') = is_confirmed(confirmEnv)]_vars


\* ------------------------------------------------------------------------
\* Further properties of the intent parser (SpecParse)
\* ------------------------------------------------------------------------

\* C27: a command made of an app name of the vocabulary and a close keyword
\* ("band karo", "close", "quit") is classified close_app with that app, and
\* never system_action with action shutdown.  (Violated: "chrome band karo"
\* contains the shutdown keyword "band kar", and system actions are tested
\* before the close keywords.)
C27_AppWithCloseKeywordIsCloseApp ==
  \A a \in Range(AppNames), k \in Range(CloseWords) :
    (parsed # NotParsed /\ heard = a \o <<" ">> \o k)
    => /\ parsed.intent = "close_app"
       /\ parsed.app = a
       /\ ~(parsed.intent = "system_action" /\ parsed.action = "shutdown")

\* C28: the record parse_intent returns is field-consistent with its intent:
\* action is non-empty exactly when the intent is system_action, app is
\* non-empty only for open_app and close_app, contact and message are
\* non-empty only for send_whatsapp.  (Violated: the search rule replaces
\* open_app by search_web and keeps the app the open rule captured.)
C28_FieldsConsistentWithIntent ==
  parsed # NotParsed =>
    /\ (parsed.action # "") <=> (parsed.intent = "system_action")
    /\ (parsed.app # <<>>) => (parsed.intent \in {"open_app", "close_app"})
    /\ (parsed.contact # <<>> \/ parsed.message # <<>>)
          => (parsed.intent = "send_whatsapp")


\* ------------------------------------------------------------------------
\* Range of the time parser's results (SpecTime)
\* ------------------------------------------------------------------------

\* C29: every timestamp parse_natural_time(text, now) returns is strictly
\* later than now and no later than the end of the calendar day that follows
\* the day of now.
C29_ResultAfterNowWithinNextDay ==
  (TimeParsed /\ parsed.when \notin {NoneTime, RaisedTime}) =>
    /\ now < parsed.when
    /\ parsed.when < DayStart(now) + 2 * MinutesPerDay

\* "7" was parsed at 20:00: the result is 07:00 of the next day, the time
\* of day having passed.
C29_Witness ==
  /\ TimeParsed
  /\ heard = <<"7">>
  /\ now = StartInstant + 13 * 60
  /\ parsed.when = DayStart(now) + MinutesPerDay + 7 * 60


\* Thread t has read the document inside read_memory and is about to
\* return it; the operation before it was a write_memory or update_memory
\* that returned False; the operation before that, by thread u, was a
\* read_memory, or a write_memory that returned True, and so tells what
\* read_memory would have returned before the failed call.  The three
\* operations ran one after the other, and nothing else ran since.
ReadsAfterFailedMutation(t, u) ==
  /\ t # u
  /\ memThr[t].op = "read" /\ memThr[t].pc = "unlock"
  /\ memThr[t].seq = memOps /\ ~memThr[t].conc
  /\ memPrev.op \in {"write", "update"} /\ ~memPrev.ok
  /\ memPrev.seq = memOps - 1 /\ ~memPrev.conc
  /\ memThr[u].op \in {"read", "write"} /\ memThr[u].ok
  /\ memThr[u].pc = "done"
  /\ memThr[u].seq = memOps - 2 /\ ~memThr[u].conc

\* C30: a failed store mutation leaves the persisted document unchanged:
\* when write(D) or update(k, v) returned false, the next read() returns the
\* document read() would have returned before the failed call.  (Violated:
\* save_m1 opens the file for writing, which empties it, before json.dump
\* fails; the next read finds no JSON and returns the defaults.)
C30_FailedMutationKeepsDocument ==
  \A t, u \in MemThreads :
    ReadsAfterFailedMutation(t, u) => memThr[t].doc = memThr[u].doc

====
